---------------------------- MODULE Spec2Model ----------------------------
(***************************************************************************)
(* Verification model of the 2D platformer: the tile merger                *)
(* (src/src/tile_merger.rs) and the per-frame systems of the collision,    *)
(* player and gravity plugins (src/src/plugins).                           *)
(*                                                                         *)
(* TileMerger::merge_tiles is modelled as a process: one action for the    *)
(* call (empty check and clone), one for each iteration of the while loop  *)
(* (find_best_rectangle, removal of the covered tiles, push) and one for   *)
(* the return.  All helper functions are operators computed the way the    *)
(* code computes them, loop by loop.                                       *)
(*                                                                         *)
(* Tile coordinates are i64.  TLC cannot represent 2^63, so the word is    *)
(* scaled down to I64Bits bits; the tile sets are drawn from a small       *)
(* window inside the range and from short runs against its upper edge, so  *)
(* that a set never spans the whole ring (which a HashSet of i64           *)
(* coordinates cannot do either).                                          *)
(*                                                                         *)
(* TileMerger::rectangles_to_world_coords is a pure function: WorldSpec    *)
(* draws its arguments and applies it, in f32 arithmetic with a scaled     *)
(* significand.                                                            *)
(*                                                                         *)
(* The systems of the collision, player and gravity plugins are one action *)
(* each, over the components of the entities.  The three plugins add them  *)
(* to the Update schedule without ordering them, so the systems of a frame *)
(* run once each in any order.  The spatial query is the environment: a    *)
(* cast reports a hit or none.  TickSpec is one run of the whole schedule  *)
(* from the start of a frame; JumpSpec is a game of several frames in      *)
(* which the systems of the jump run.  BodiesSpec has two bodies and takes *)
(* a system's loop one entity at a time.                                   *)
(*                                                                         *)
(* shape_cast is a function of its arguments and of the colliders of the   *)
(* physics world: CastSpec draws them and applies it.  LevelSpec is        *)
(* setup_level for the grids of a small level.                             *)
(*                                                                         *)
(* RectangleSpec calls the methods of Rectangle on rectangles inside the   *)
(* window and against the upper edge of the i64 range.  MoveSpec is the    *)
(* movement step alone, from every velocity around the dead zone and every *)
(* combination of contact flags.  KinematicSpec is one run of the          *)
(* axis-separated movement of plugins/_claude_collision.rs.                *)
(***************************************************************************)
EXTENDS Integers, Sequences, FiniteSets, TLC

VARIABLES
    overflow_checks,  \* build profile: TRUE in a debug build (`+` panics on overflow), FALSE in a release build (`+` wraps)
    heap,             \* the two HashSet<TileCoords> of merge_tiles: heap.tiles is the caller's set, heap.remaining_tiles the local
    rectangles,       \* the Vec<Rectangle> being built
    pc,               \* position of merge_tiles: "entry", "loop", "returned", "panicked", "aborted"; of rectangles_to_world_coords: "world_entry", "world_returned"; of shape_cast: "cast_entry", "cast_returned"; of setup_level: "level_entry", "level_spawned"; of a method of Rectangle: "rect_entry", "rect_returned"
    tile_size,        \* TileMerger.tile_size
    world_rects,      \* the Vec<(f32, f32, f32, f32)> returned by rectangles_to_world_coords
    level_colliders,  \* the static colliders setup_level has spawned
    spatial_query,    \* SpatialQuery: the colliders of the physics world and the number of queries made
    cast_call,        \* a call of shape_cast: its arguments and its result
    rect_call,        \* a call of a method of Rectangle: self, the argument, the method and its result
    entities,         \* the ECS world: entity |-> its components
    time_delta,       \* Res<Time>: the delta of the current frame
    action_state,     \* ActionState<PlayerAction>: the actions pressed in the current frame
    update_ran,       \* the systems of the Update schedule that have run in the current frame
    frame,            \* number of frames started
    locals,           \* the system that ran last and, per entity, the locals of its loop body
    airborne          \* per entity, its history: the ground checks without a hit since the last hit (their number, the sum of their deltas), and what the control step and the ground check of this frame and of the frame before did

world_vars == <<tile_size, world_rects, level_colliders, spatial_query, cast_call, rect_call>>

tick_vars == <<entities, time_delta, action_state, update_ran, frame, locals, airborne>>

vars == <<overflow_checks, heap, rectangles, pc, world_vars, tick_vars>>

-----------------------------------------------------------------------------
(* Bounds of the model *)

\* width of the window the input tiles are drawn from
GridW == 3
\* height of the window the input tiles are drawn from
GridH == 3
\* largest number of tiles of an arbitrary input set
MaxTiles == 5
\* length of the runs of tiles placed against the upper edge of the i64 range
EdgeLen == 2
\* scaled width of the i64 word
I64Bits == 6
\* number of elements the Vec<Rectangle> can hold before an allocation fails
MaxRectangles == 12
\* scaled width of the f32 significand (24 bits in the build)
F32Bits == 5
\* longest slice of rectangles handed to rectangles_to_world_coords
MaxWorldRects == 2
\* number of frames of a run of the Update schedule
MaxFrames == 3

\* the tile size of the mergers built by the test suite: TileMerger::new(32.0)
TestTileSize == 32

-----------------------------------------------------------------------------
(* i64 arithmetic *)

I64Max == 2^(I64Bits - 1) - 1
I64Min == -(2^(I64Bits - 1))
I64 == I64Min..I64Max

\* the result of an addition that panicked ("attempt to add with overflow")
Overflow == 2^I64Bits

wrapping_add(a, b) == ((a + b - I64Min) % (2^I64Bits)) + I64Min

\* a + b on i64 under the build's overflow-checks setting
AddI64(a, b) ==
    IF a + b \in I64 THEN a + b
    ELSE IF overflow_checks THEN Overflow
    ELSE wrapping_add(a, b)

-----------------------------------------------------------------------------
(* Geometry primitives *)

TileCoords(x, y) == [x |-> x, y |-> y]

Rectangle(x, y, width, height) == [x |-> x, y |-> y, width |-> width, height |-> height]

area(rect) == rect.width * rect.height

\* Rectangle::contains_tile: the four comparisons are joined by `&&`, so a
\* sum is computed only if the comparisons before it hold
contains_tile(rect, pos) ==
    LET x_end == AddI64(rect.x, rect.width)
        y_end == AddI64(rect.y, rect.height)
    IN  IF ~(pos.x >= rect.x) THEN [panic |-> FALSE, value |-> FALSE]
        ELSE IF x_end = Overflow THEN [panic |-> TRUE, value |-> FALSE]
        ELSE IF ~(pos.x < x_end) THEN [panic |-> FALSE, value |-> FALSE]
        ELSE IF ~(pos.y >= rect.y) THEN [panic |-> FALSE, value |-> FALSE]
        ELSE IF y_end = Overflow THEN [panic |-> TRUE, value |-> FALSE]
        ELSE [panic |-> FALSE, value |-> pos.y < y_end]

\* get_covered_tiles that walks only the first row of the rectangle
get_covered_tiles_first_row(rect) ==
    [panic |-> FALSE, tiles |-> {TileCoords(x, rect.y) : x \in rect.x..(rect.x + rect.width - 1)}]

\* get_covered_tiles with inclusive ranges, x..=(x+width) and y..=(y+height)
get_covered_tiles_inclusive(rect) ==
    [panic |-> FALSE,
     tiles |-> {TileCoords(x, y) : x \in rect.x..(rect.x + rect.width), y \in rect.y..(rect.y + rect.height)}]

\* Rectangle::get_covered_tiles: the ranges x..(x+width) and y..(y+height);
\* a range whose end is not above its start is empty.
get_covered_tiles(rect) ==
    LET x_end == AddI64(rect.x, rect.width)
        y_end == AddI64(rect.y, rect.height)
    IN  IF x_end = Overflow THEN [panic |-> TRUE, tiles |-> {}]
        ELSE IF rect.x >= x_end THEN [panic |-> FALSE, tiles |-> {}]
        ELSE IF y_end = Overflow THEN [panic |-> TRUE, tiles |-> {}]
        ELSE [panic |-> FALSE,
              tiles |-> {TileCoords(x, y) : x \in rect.x..(x_end - 1), y \in rect.y..(y_end - 1)}]

-----------------------------------------------------------------------------
(* TileMerger *)

\* an integer result that stands for a panic inside the function
Panic == -1
PanicRect == Rectangle(0, 0, Panic, Panic)

RECURSIVE max_width_loop(_, _, _)
max_width_loop(tiles, start, width) ==
    LET test_x == AddI64(start.x, width)
    IN  IF test_x = Overflow THEN Panic
        ELSE IF TileCoords(test_x, start.y) \in tiles
             THEN max_width_loop(tiles, start, width + 1)
             ELSE width

find_max_width_from_position(tiles, start) == max_width_loop(tiles, start, 0)

\* the inner for loop of find_max_height_for_width: "complete", "incomplete" or "panic"
RECURSIVE row_scan(_, _, _, _, _)
row_scan(tiles, start, width, height, x_offset) ==
    IF x_offset >= width THEN "complete"
    ELSE LET test_x == AddI64(start.x, x_offset)
             test_y == AddI64(start.y, height)
         IN  IF test_x = Overflow \/ test_y = Overflow THEN "panic"
             ELSE IF TileCoords(test_x, test_y) \notin tiles THEN "incomplete"
             ELSE row_scan(tiles, start, width, height, x_offset + 1)

RECURSIVE max_height_loop(_, _, _, _)
max_height_loop(tiles, start, width, height) ==
    LET row == row_scan(tiles, start, width, height, 0)
    IN  IF row = "panic" THEN Panic
        ELSE IF row = "complete" THEN max_height_loop(tiles, start, width, height + 1)
        ELSE height

\* find_max_height_for_width that tests only the first tile of each row
find_max_height_first_column(tiles, start, width) == max_height_loop(tiles, start, 1, 0)

find_max_height_for_width(tiles, start, width) == max_height_loop(tiles, start, width, 0)

RECURSIVE largest_rect_loop(_, _, _, _, _, _)
largest_rect_loop(tiles, start, width, max_width, best_rect, best_area) ==
    IF width > max_width THEN best_rect
    ELSE LET height == find_max_height_for_width(tiles, start, width)
             rect_area == width * height
         IN  IF height = Panic THEN PanicRect
             ELSE IF rect_area > best_area
                  THEN largest_rect_loop(tiles, start, width + 1, max_width,
                                         Rectangle(start.x, start.y, width, height), rect_area)
                  ELSE largest_rect_loop(tiles, start, width + 1, max_width, best_rect, best_area)

\* find_largest_rect_from_position that tries the full width only
find_largest_rect_full_width(tiles, start) ==
    LET max_width == find_max_width_from_position(tiles, start)
    IN  IF max_width = Panic THEN PanicRect
        ELSE largest_rect_loop(tiles, start, max_width, max_width,
                               Rectangle(start.x, start.y, 1, 1), 1)

\* find_largest_rect_from_position with the exclusive range 1..max_width
find_largest_rect_exclusive_range(tiles, start) ==
    LET max_width == find_max_width_from_position(tiles, start)
    IN  IF max_width = Panic THEN PanicRect
        ELSE largest_rect_loop(tiles, start, 1, max_width - 1,
                               Rectangle(start.x, start.y, 1, 1), 1)

find_largest_rect_from_position(tiles, start) ==
    LET max_width == find_max_width_from_position(tiles, start)
    IN  IF max_width = Panic THEN PanicRect
        ELSE largest_rect_loop(tiles, start, 1, max_width,
                               Rectangle(start.x, start.y, 1, 1), 1)

MaxOf(S) == CHOOSE m \in S : \A n \in S : n <= m

\* find_best_rectangle with the comparison turned round: keeps a rectangle of the smallest area
find_best_rectangle_smallest(tiles) ==
    LET rects == {find_largest_rect_from_position(tiles, tile) : tile \in tiles}
    IN  IF tiles = {} \/ PanicRect \in rects THEN {PanicRect}
        ELSE {rect \in rects : \A other \in rects : area(rect) <= area(other)}

\* find_best_rectangle without the comparison of the areas: keeps the rectangle of the last tile visited
find_best_rectangle_last_visited(tiles) ==
    LET rects == {find_largest_rect_from_position(tiles, tile) : tile \in tiles}
    IN  IF tiles = {} \/ PanicRect \in rects THEN {PanicRect}
        ELSE rects

\* find_best_rectangle visits every tile of the set in the HashSet's
\* unspecified order and keeps the first rectangle of strictly greater area:
\* its result is the rectangle of the first visited tile that attains the
\* largest area.  The operator returns the set of results over all orders.
\* A panic in any visit panics the call, whatever the order.
find_best_rectangle(tiles) ==
    LET rects == {find_largest_rect_from_position(tiles, tile) : tile \in tiles}
    IN  IF tiles = {} \/ PanicRect \in rects THEN {PanicRect}
        ELSE LET best_area == MaxOf({area(rect) : rect \in rects})
             IN  {rect \in rects : area(rect) = best_area}

-----------------------------------------------------------------------------
(* Inputs *)

Window == {TileCoords(x, y) : x \in 0..(GridW - 1), y \in 0..(GridH - 1)}

\* the last EdgeLen cells of row 0 before the largest x, and of column 0 before the largest y
EdgeRow == {TileCoords(x, 0) : x \in (I64Max - EdgeLen + 1)..I64Max}
EdgeColumn == {TileCoords(0, y) : y \in (I64Max - EdgeLen + 1)..I64Max}

\* tests::test_complex_level_layout
ComplexLevel ==
    {TileCoords(x, 0) : x \in 0..19}
    \cup {TileCoords(0, y) : y \in 1..5}
    \cup {TileCoords(19, y) : y \in 1..5}
    \cup {TileCoords(x, 3) : x \in 6..13}

\* tests::test_l_shape
LShape == {TileCoords(0, 0), TileCoords(1, 0), TileCoords(2, 0), TileCoords(0, 1), TileCoords(0, 2)}

\* the solid w x h blocks of the window
SolidBlocks ==
    {{TileCoords(x, y) : x \in x0..(x0 + w - 1), y \in y0..(y0 + h - 1)} :
        x0 \in 0..(GridW - 1), y0 \in 0..(GridH - 1), w \in 1..GridW, h \in 1..GridH}
    \cap SUBSET Window

\* the tile sets of the window of at most MaxTiles tiles, its solid blocks, the
\* level of the test suite, and the runs that end at the edge of the i64 range
Inputs ==
    {shape \in SUBSET Window : Cardinality(shape) <= MaxTiles}
    \cup SolidBlocks \cup {ComplexLevel}
    \cup ((SUBSET EdgeRow) \ {{}}) \cup ((SUBSET EdgeColumn) \ {{}})

-----------------------------------------------------------------------------
(* The ECS world before any entity is spawned *)

NoLocals == [system |-> "none", of |-> <<>>]

\* no level is loaded, no cast is made
PhysicsIdle ==
    /\ level_colliders = <<>>
    /\ spatial_query = [colliders |-> {}, queries |-> 0]
    /\ cast_call = <<>>
    /\ rect_call = <<>>

TickIdle ==
    /\ entities = <<>>
    /\ time_delta = 0
    /\ action_state = {}
    /\ update_ran = {}
    /\ frame = 0
    /\ locals = NoLocals
    /\ airborne = <<>>

-----------------------------------------------------------------------------
(* merge_tiles *)

\* the working set without the clone: the caller's set itself
WorkingSetAliased == "tiles"

\* `let mut remaining_tiles = tiles.clone()`: the working set is a set of its own
WorkingSet == "remaining_tiles"

Init ==
    /\ overflow_checks \in BOOLEAN
    /\ \E input \in Inputs : heap = [tiles |-> input, remaining_tiles |-> {}]
    /\ rectangles = <<>>
    /\ pc = "entry"
    /\ tile_size = TestTileSize
    /\ world_rects = <<>>
    /\ PhysicsIdle
    /\ TickIdle

\* lines 57-59: an empty set returns Vec::new()
ReturnEmpty ==
    /\ pc = "entry"
    /\ heap.tiles = {}
    /\ pc' = "returned"
    /\ UNCHANGED <<overflow_checks, heap, rectangles>>
    /\ UNCHANGED <<world_vars, tick_vars>>

\* lines 61-62
CloneTiles ==
    /\ pc = "entry"
    /\ heap.tiles # {}
    /\ heap' = [heap EXCEPT ![WorkingSet] = heap.tiles]
    /\ rectangles' = <<>>
    /\ pc' = "loop"
    /\ UNCHANGED overflow_checks
    /\ UNCHANGED <<world_vars, tick_vars>>

\* lines 64-74: one iteration of the while loop
MergeIteration ==
    /\ pc = "loop"
    /\ heap[WorkingSet] # {}
    /\ \E best_rect \in find_best_rectangle(heap[WorkingSet]) :
          /\ best_rect # PanicRect
          /\ LET covered == get_covered_tiles(best_rect)
             IN  /\ ~covered.panic
                 /\ Len(rectangles) < MaxRectangles
                 /\ heap' = [heap EXCEPT ![WorkingSet] = @ \ covered.tiles]
                 /\ rectangles' = Append(rectangles, best_rect)
    /\ UNCHANGED <<overflow_checks, pc>>
    /\ UNCHANGED <<world_vars, tick_vars>>

\* an addition overflowed in find_best_rectangle or get_covered_tiles of an iteration
MergePanic ==
    /\ pc = "loop"
    /\ heap[WorkingSet] # {}
    /\ \E best_rect \in find_best_rectangle(heap[WorkingSet]) :
          \/ best_rect = PanicRect
          \/ get_covered_tiles(best_rect).panic
    /\ pc' = "panicked"
    /\ UNCHANGED <<overflow_checks, heap, rectangles>>
    /\ UNCHANGED <<world_vars, tick_vars>>

\* rectangles.push when the vector cannot grow any more
MergeAbort ==
    /\ pc = "loop"
    /\ heap[WorkingSet] # {}
    /\ \E best_rect \in find_best_rectangle(heap[WorkingSet]) :
          /\ best_rect # PanicRect
          /\ ~get_covered_tiles(best_rect).panic
    /\ Len(rectangles) >= MaxRectangles
    /\ pc' = "aborted"
    /\ UNCHANGED <<overflow_checks, heap, rectangles>>
    /\ UNCHANGED <<world_vars, tick_vars>>

\* line 76
Return ==
    /\ pc = "loop"
    /\ heap[WorkingSet] = {}
    /\ pc' = "returned"
    /\ UNCHANGED <<overflow_checks, heap, rectangles>>
    /\ UNCHANGED <<world_vars, tick_vars>>

Next ==
    \/ ReturnEmpty
    \/ CloneTiles
    \/ MergeIteration
    \/ MergePanic
    \/ MergeAbort
    \/ Return

Spec == Init /\ [][Next]_vars

-----------------------------------------------------------------------------
(* The methods of Rectangle, called on their own *)

\* the corners of the rectangles: in the window and at the top of the i64 range
RectCorners == {0, 1, I64Max - 1, I64Max}

\* the widths and heights of the rectangles
RectExtents == {1, 2}

\* the tiles asked about: around the corners and at both ends of the i64 range
RectTiles == {TileCoords(x, y) : x, y \in {I64Min, 0, 1, 2, I64Max - 1, I64Max}}

RectangleInit ==
    /\ overflow_checks \in BOOLEAN
    /\ heap = [tiles |-> {}, remaining_tiles |-> {}]
    /\ rectangles = <<>>
    /\ pc = "rect_entry"
    /\ tile_size = TestTileSize
    /\ world_rects = <<>>
    /\ level_colliders = <<>>
    /\ spatial_query = [colliders |-> {}, queries |-> 0]
    /\ cast_call = <<>>
    /\ \E x, y \in RectCorners, width, height \in RectExtents, pos \in RectTiles :
          rect_call = [self |-> Rectangle(x, y, width, height), pos |-> pos,
                       method |-> "none", result |-> <<>>]
    /\ TickIdle

\* rect.area()
CallArea ==
    /\ pc = "rect_entry"
    /\ rect_call' = [rect_call EXCEPT !.method = "area", !.result = area(rect_call.self)]
    /\ pc' = "rect_returned"
    /\ UNCHANGED <<overflow_checks, heap, rectangles, tile_size, world_rects,
                   level_colliders, spatial_query, cast_call, tick_vars>>

\* rect.contains_tile(&pos)
CallContainsTile ==
    /\ pc = "rect_entry"
    /\ rect_call' = [rect_call EXCEPT !.method = "contains_tile", !.result = contains_tile(rect_call.self, rect_call.pos)]
    /\ pc' = "rect_returned"
    /\ UNCHANGED <<overflow_checks, heap, rectangles, tile_size, world_rects,
                   level_colliders, spatial_query, cast_call, tick_vars>>

\* rect.get_covered_tiles()
CallGetCoveredTiles ==
    /\ pc = "rect_entry"
    /\ rect_call' = [rect_call EXCEPT !.method = "get_covered_tiles", !.result = get_covered_tiles(rect_call.self)]
    /\ pc' = "rect_returned"
    /\ UNCHANGED <<overflow_checks, heap, rectangles, tile_size, world_rects,
                   level_colliders, spatial_query, cast_call, tick_vars>>

RectangleNext ==
    \/ CallArea
    \/ CallContainsTile
    \/ CallGetCoveredTiles

RectangleSpec == RectangleInit /\ [][RectangleNext]_vars

-----------------------------------------------------------------------------
(* Vocabulary of the properties *)

\* the tiles of the half-open box [x, x+width) x [y, y+height)
TilesOf(rect) ==
    {TileCoords(x, y) : x \in rect.x..(rect.x + rect.width - 1),
                        y \in rect.y..(rect.y + rect.height - 1)}

Covered == UNION {TilesOf(rectangles[i]) : i \in 1..Len(rectangles)}

RECURSIVE SumArea(_)
SumArea(rects) == IF rects = <<>> THEN 0 ELSE area(Head(rects)) + SumArea(Tail(rects))

PairwiseDisjoint ==
    \A i, j \in 1..Len(rectangles) :
        i # j => TilesOf(rectangles[i]) \cap TilesOf(rectangles[j]) = {}

MinX(T) == CHOOSE x \in {t.x : t \in T} : \A t \in T : x <= t.x
MaxX(T) == CHOOSE x \in {t.x : t \in T} : \A t \in T : x >= t.x
MinY(T) == CHOOSE y \in {t.y : t \in T} : \A t \in T : y <= t.y
MaxY(T) == CHOOSE y \in {t.y : t \in T} : \A t \in T : y >= t.y

BoundingBox(T) == Rectangle(MinX(T), MinY(T), MaxX(T) - MinX(T) + 1, MaxY(T) - MinY(T) + 1)

IsSolidBlock(T) == T # {} /\ T = TilesOf(BoundingBox(T))

Adjacent(t, u) ==
    \/ t.y = u.y /\ (t.x - u.x = 1 \/ u.x - t.x = 1)
    \/ t.x = u.x /\ (t.y - u.y = 1 \/ u.y - t.y = 1)

NoAdjacentTiles(T) == \A t, u \in T : ~Adjacent(t, u)

\* the first tile of T in row-major order: the top-left corner of its rectangle in every partition of T
FirstTile(T) == CHOOSE t \in T : \A u \in T : t.y < u.y \/ (t.y = u.y /\ t.x <= u.x)

\* the solid rectangles of T whose top-left corner is t
SolidRectsAt(T, t) ==
    {rect \in {Rectangle(t.x, t.y, w, h) :
                  w \in 1..Cardinality({u \in T : u.y = t.y /\ u.x >= t.x}),
                  h \in 1..Cardinality({u \in T : u.x = t.x /\ u.y >= t.y})} :
        TilesOf(rect) \subseteq T}

\* T can be partitioned into at most k solid rectangles
RECURSIVE PartitionWithin(_, _)
PartitionWithin(T, k) ==
    \/ T = {}
    \/ /\ k > 0
       /\ \E rect \in SolidRectsAt(T, FirstTile(T)) : PartitionWithin(T \ TilesOf(rect), k - 1)

-----------------------------------------------------------------------------
(* Properties of merge_tiles *)

\* C1: the union of the tiles covered by the rectangles merge_tiles returns
\* equals the input set exactly: no tile is left out and no rectangle covers
\* a tile outside the set, whatever the iteration order.
C1_CoverageExact == pc = "returned" => Covered = heap.tiles

C1_Witness ==
    /\ pc = "returned"
    /\ Len(rectangles) >= 2
    /\ \E i \in 1..Len(rectangles) : rectangles[i].width >= 2 /\ rectangles[i].height >= 2

\* C2: the returned rectangles are pairwise non-overlapping, so every tile of
\* the input lies in exactly one of them and the areas sum to |T|.
C2_NonOverlapping ==
    pc = "returned" =>
        /\ PairwiseDisjoint
        /\ \A t \in heap.tiles :
              Cardinality({i \in 1..Len(rectangles) : contains_tile(rectangles[i], t).value}) = 1
        /\ SumArea(rectangles) = Cardinality(heap.tiles)

C2_Witness ==
    /\ pc = "returned"
    /\ Len(rectangles) >= 3
    /\ \E i \in 1..Len(rectangles) : rectangles[i].height >= 2

\* C3: merge_tiles terminates: every iteration of its loop removes at least
\* one tile from the working set, so the loop runs at most |T| times and at
\* most |T| rectangles are returned.
C3_EveryIterationRemovesATile ==
    /\ [][(pc = "loop" /\ heap.remaining_tiles # {}) =>
             /\ pc' = "loop"
             /\ Cardinality(heap'.remaining_tiles) < Cardinality(heap.remaining_tiles)]_vars
    /\ [](Len(rectangles) <= Cardinality(heap.tiles))

\* C4: a solid w x h block is merged into exactly one rectangle, anchored at
\* the block's minimum corner, of width w and height h.
C4_SolidBlockIsOneRectangle ==
    (pc = "returned" /\ IsSolidBlock(heap.tiles)) =>
        rectangles = <<BoundingBox(heap.tiles)>>

C4_Witness ==
    /\ pc = "returned"
    /\ IsSolidBlock(heap.tiles)
    /\ Cardinality(heap.tiles) >= 6
    /\ Len(rectangles) = 1

\* C5 as stated: the returned cover is minimal, no partition of T into fewer
\* solid rectangles exists than merge_tiles returns.
C5_MinimalCover ==
    (pc = "returned" /\ rectangles # <<>>) =>
        ~PartitionWithin(heap.tiles, Len(rectangles) - 1)

\* C5 as amended: the returned cover is greedy and minimal only locally, no
\* two of the returned rectangles together form a solid rectangle, while a
\* partition of T into fewer rectangles can exist.
C5_NoTwoRectanglesMerge ==
    pc = "returned" =>
        \A i, j \in 1..Len(rectangles) :
            i # j => ~IsSolidBlock(TilesOf(rectangles[i]) \cup TilesOf(rectangles[j]))

C5_Witness ==
    /\ pc = "returned"
    /\ rectangles # <<>>
    /\ PartitionWithin(heap.tiles, Len(rectangles) - 1)

\* C6: merge_tiles leaves the caller's tile set unchanged, no step of the
\* call changes it, although the working copy has shrunk to empty when a
\* call on a non-empty set returns.
C6_InputUnchanged ==
    /\ [][heap'.tiles = heap.tiles]_vars
    /\ []((pc = "returned" /\ heap.tiles # {}) => heap.remaining_tiles = {})

C6_Witness ==
    /\ pc = "returned"
    /\ Cardinality(heap.tiles) >= 4
    /\ heap.remaining_tiles = {}
    /\ Len(rectangles) >= 2

\* C7: merge_tiles on the empty set returns the empty list, and on no input
\* does merge_tiles panic or fail.
C7_TotalNoPanic ==
    /\ (pc = "returned" /\ heap.tiles = {}) => rectangles = <<>>
    /\ pc \notin {"panicked", "aborted"}

\* C8: the L-shaped set of the test suite is merged into at least 2
\* rectangles whose areas sum to 5, whatever the iteration order.
C8_LShape ==
    (pc = "returned" /\ heap.tiles = LShape) =>
        /\ Len(rectangles) >= 2
        /\ SumArea(rectangles) = 5

C8_Witness == pc = "returned" /\ heap.tiles = LShape /\ Len(rectangles) >= 2

\* C9: the level layout of the test suite (38 tiles) is merged into at most
\* 4 rectangles whose areas sum to 38, whatever the iteration order and the
\* resolution of area ties.
C9_ComplexLevel ==
    (pc = "returned" /\ heap.tiles = ComplexLevel) =>
        /\ Len(rectangles) <= 4
        /\ Len(rectangles) < Cardinality(ComplexLevel)
        /\ SumArea(rectangles) = Cardinality(ComplexLevel)

C9_Witness == pc = "returned" /\ heap.tiles = ComplexLevel /\ Len(rectangles) = 4

\* C10: when no two tiles of the input are horizontally or vertically
\* adjacent, merge_tiles returns one rectangle per tile, each of area 1.
C10_ScatteredTiles ==
    (pc = "returned" /\ NoAdjacentTiles(heap.tiles)) =>
        /\ Len(rectangles) = Cardinality(heap.tiles)
        /\ \A i \in 1..Len(rectangles) : area(rectangles[i]) = 1

C10_Witness ==
    /\ pc = "returned"
    /\ NoAdjacentTiles(heap.tiles)
    /\ Cardinality(heap.tiles) >= 3
    /\ Len(rectangles) = Cardinality(heap.tiles)

-----------------------------------------------------------------------------
(* f32 arithmetic of rectangles_to_world_coords *)

(* An f32 of this section is counted in halves: the integer n stands for   *)
(* the value n/2.  Every value the function computes is a multiple of 1/2  *)
(* (an i64, half an i64, or one of them times a whole tile size), and      *)
(* scaling by two does not change which values a binary significand can    *)
(* hold.  The significand is scaled down to F32Bits bits.                  *)

Abs(n) == IF n < 0 THEN -n ELSE n

RECURSIVE BitLength(_)
BitLength(n) == IF n = 0 THEN 0 ELSE 1 + BitLength(n \div 2)

\* the nearest value with a significand of F32Bits bits, ties to even
RoundF32(n) ==
    LET e == BitLength(Abs(n)) - F32Bits
    IN  IF e <= 0 THEN n
        ELSE LET ulp == 2^e
                 q == Abs(n) \div ulp
                 r == Abs(n) % ulp
                 up == (2 * r > ulp) \/ (2 * r = ulp /\ q % 2 = 1)
                 m == (IF up THEN q + 1 ELSE q) * ulp
             IN  IF n < 0 THEN -m ELSE m

\* `i as f32`
I64ToF32(i) == RoundF32(2 * i)

\* `a / 2.0`: exact, the values halved here are whole numbers
HalfF32(a) == a \div 2

\* `a + b`
AddF32(a, b) == RoundF32(a + b)

\* `a * self.tile_size`, the tile size a whole number
MulF32(a, size) == RoundF32(a * size)

-----------------------------------------------------------------------------
(* rectangles_to_world_coords *)

\* the placement without the offset to the centre: the corner of the rectangle
rectangles_to_world_coords_corner(rects, size) ==
    [i \in 1..Len(rects) |->
        <<MulF32(I64ToF32(rects[i].x), size),
          MulF32(I64ToF32(rects[i].y), size),
          MulF32(I64ToF32(rects[i].width), size),
          MulF32(I64ToF32(rects[i].height), size)>>]

\* lines 185-203: (center_x, center_y, total_width, total_height) of every rectangle, in order
rectangles_to_world_coords(rects, size) ==
    [i \in 1..Len(rects) |->
        LET rect == rects[i]
            center_x == MulF32(AddF32(I64ToF32(rect.x), HalfF32(I64ToF32(rect.width))), size)
            center_y == MulF32(AddF32(I64ToF32(rect.y), HalfF32(I64ToF32(rect.height))), size)
            total_width == MulF32(I64ToF32(rect.width), size)
            total_height == MulF32(I64ToF32(rect.height), size)
        IN  <<center_x, center_y, total_width, total_height>>]

\* the x coordinates of the rectangles handed to the function
WorldXs == {I64Min, 0, 3, I64Max}
\* their y coordinates
WorldYs == {0, I64Max}
\* their widths and heights
WorldExtents == {1, 2}
\* the tile sizes of the mergers
TileSizes == {1, 3, TestTileSize}

WorldRectangles ==
    {Rectangle(x, y, w, h) : x \in WorldXs, y \in WorldYs, w \in WorldExtents, h \in WorldExtents}

RECURSIVE SeqsUpTo(_, _)
SeqsUpTo(S, n) ==
    IF n = 0 THEN {<<>>}
    ELSE LET shorter == SeqsUpTo(S, n - 1)
         IN  shorter \cup {Append(q, e) : q \in shorter, e \in S}

WorldInit ==
    /\ overflow_checks = FALSE
    /\ heap = [tiles |-> {}, remaining_tiles |-> {}]
    /\ rectangles \in SeqsUpTo(WorldRectangles, MaxWorldRects)
    /\ pc = "world_entry"
    /\ tile_size \in TileSizes
    /\ world_rects = <<>>
    /\ PhysicsIdle
    /\ TickIdle

CallRectanglesToWorldCoords ==
    /\ pc = "world_entry"
    /\ world_rects' = rectangles_to_world_coords(rectangles, tile_size)
    /\ pc' = "world_returned"
    /\ UNCHANGED <<overflow_checks, heap, rectangles, tile_size, tick_vars>>
    /\ UNCHANGED <<level_colliders, spatial_query, cast_call, rect_call>>

WorldNext == CallRectanglesToWorldCoords

WorldSpec == WorldInit /\ [][WorldNext]_vars

\* the placement of the claim, computed without rounding (in halves)
ExactPlacement(rect, size) ==
    <<(2 * rect.x + rect.width) * size,
      (2 * rect.y + rect.height) * size,
      2 * rect.width * size,
      2 * rect.height * size>>

\* n/2 is an f32
Representable(n) == RoundF32(n) = n

\* every intermediate value of the placement of rect is an f32
ExactInF32(rect, size) ==
    /\ \A i \in {rect.x, rect.y, rect.width, rect.height} : Representable(2 * i)
    /\ Representable(2 * rect.x + rect.width)
    /\ Representable(2 * rect.y + rect.height)
    /\ \A n \in {ExactPlacement(rect, size)[k] : k \in 1..4} : Representable(n)

-----------------------------------------------------------------------------
(* The per-frame systems: numbers *)

(* Lengths and velocities are f32 in the code; the model counts them in    *)
(* tenths (of a world unit, of a unit per second), the resolution of the   *)
(* skin 0.1 of apply_velocity.  Durations are counted in tenths of a       *)
(* second.  A product or quotient is rounded towards zero to the           *)
(* resolution.  The tile is taken to be two tenths of a world unit, which  *)
(* keeps the player's speeds small.                                        *)

\* the f32 1.0
FixedOne == 10

\* f32::INFINITY; -Infinity is f32::NEG_INFINITY
Infinity == 1000000

\* `hit.distance - 0.1`: the skin
Skin == FixedOne \div 10

\* model time units in a second
UnitsPerSecond == 10

\* Duration::from_millis
from_millis(ms) == (ms * UnitsPerSecond) \div 1000

\* division rounding towards zero
TruncDiv(a, b) == IF a < 0 THEN -((-a) \div b) ELSE a \div b

IsInfinite(a) == a = Infinity \/ a = -Infinity

\* `a * time.delta_secs()`
TimesDeltaSecs(a) == IF IsInfinite(a) THEN a ELSE TruncDiv(a * time_delta, UnitsPerSecond)

\* `a + b` on f32, b finite
AddVel(a, b) == IF IsInfinite(a) THEN a ELSE a + b

\* f32::clamp
clamp(a, min, max) == IF a < min THEN min ELSE IF a > max THEN max ELSE a

\* `a.max(0.0)`
Max0(a) == IF a < 0 THEN 0 ELSE a

Vec2(x, y) == [x |-> x, y |-> y]

\* the integer square root
ISqrt(n) == CHOOSE r \in 0..n : r * r <= n /\ (r + 1) * (r + 1) > n

\* Vec2::length
length(v) ==
    IF IsInfinite(v.x) \/ IsInfinite(v.y) THEN Infinity
    ELSE ISqrt(v.x * v.x + v.y * v.y)

\* `v.normalize() * distance`, v finite and not zero
NormalizeTimes(v, distance) ==
    Vec2(TruncDiv(v.x * distance, length(v)), TruncDiv(v.y * distance, length(v)))

\* the side of a tile
TILE_SIZE == 2

multiply_by_tile_size(value) == value * TILE_SIZE

\* spawn_player, lines 142-148 and 235-240
walk_speed == multiply_by_tile_size(10)
walk_acceleration == (walk_speed * 5) \div 2
walk_deceleration == walk_acceleration * 2
jump_force == multiply_by_tile_size(15)
gravity == multiply_by_tile_size(30)
max_fall_speed == multiply_by_tile_size(15)
gravity_immunity_duration == from_millis(300)
coyote_time == from_millis(500)
jump_cooldown_duration == from_millis(500)

-----------------------------------------------------------------------------
(* bevy::time::Stopwatch and Timer (TimerMode::Once) *)

(* A timer is its elapsed time and its duration.  Every read of finished() *)
(* in the systems directly follows a tick of the same timer, and after a   *)
(* tick finished() is elapsed >= duration.                                 *)

Timer(duration) == [elapsed |-> 0, duration |-> duration]

finished(timer) == timer.elapsed >= timer.duration

\* Timer::tick: a finished timer stays as it is, a running one stops at its duration
tick(timer, delta) ==
    IF finished(timer) THEN timer
    ELSE [timer EXCEPT !.elapsed = IF @ + delta >= timer.duration THEN timer.duration ELSE @ + delta]

\* Timer::reset
reset(timer) == [timer EXCEPT !.elapsed = 0]

\* Timer::set_elapsed
set_elapsed(timer, time) == [timer EXCEPT !.elapsed = time]

-----------------------------------------------------------------------------
(* Results of SpatialQuery::cast_shape *)

\* Option::None
NoHit == -1

\* the distances at which the movement cast can report a hit
CastDistances == {0, Skin, 3 * Skin}

\* a hit of a contact probe: only `Some(_hit)` is looked at
ProbeOutcomes == {NoHit, 0}

-----------------------------------------------------------------------------
(* shape_cast *)

(* The physics world is the set of its colliders.  A collider is the       *)
(* entity that carries it, the layers it is a member of, and how far along *)
(* the cast the cast shape meets it (NoHit: it is not on the path).  The   *)
(* cast starts at the caller's own collider with the caller's own shape,   *)
(* so the cast shape meets that collider at distance 0.                    *)

\* the variants of constants::GameLayer that spawn_player names
GameLayer == {"Default", "Player", "LevelGeometry"}

\* the child entity that carries the caller's collider
OwnCollider == "own"

ColliderOf(entity, memberships, distance) ==
    [entity |-> entity, memberships |-> memberships, distance |-> distance]

\* SpatialQueryFilter: from_mask(..), and default() whose mask is every layer
SpatialQueryFilter(mask) == [mask |-> mask, excluded_entities |-> {}]

\* Option<ShapeHitData>::None
None == [entity |-> "none", distance |-> NoHit]

\* Dir2::new(direction) is Ok: the length is finite and greater than 0
Dir2_new_is_ok(direction) == length(direction) # Infinity /\ length(direction) > 0

\* SpatialQueryFilter::test
filter_test(filter, collider) ==
    /\ collider.entity \notin filter.excluded_entities
    /\ collider.memberships \cap filter.mask # {}

\* SpatialQuery::cast_shape: the hits it can report, the closest collider
\* within max_distance that passes the filter, or None
cast_shape(colliders, max_distance, filter) ==
    LET met == {collider \in colliders :
                   /\ filter_test(filter, collider)
                   /\ collider.distance # NoHit
                   /\ collider.distance <= max_distance}
    IN  IF met = {} THEN {None}
        ELSE {[entity |-> collider.entity, distance |-> collider.distance] :
                 collider \in {closest \in met : \A other \in met : closest.distance <= other.distance}}

\* shape_cast that makes the query whatever the direction is
shape_cast_direction_unchecked(colliders, direction, distance, filter) ==
    {[hit |-> hit, queries |-> 1] : hit \in cast_shape(colliders, distance, filter)}

\* shape_cast, lines 50-73: the results it can give and the queries it makes
shape_cast(colliders, direction, distance, filter) ==
    IF Dir2_new_is_ok(direction)
    THEN {[hit |-> hit, queries |-> 1] : hit \in cast_shape(colliders, distance, filter)}
    ELSE {[hit |-> None, queries |-> 0]}

\* the components of the directions of a cast
DirectionComponents == {-Infinity, -FixedOne, 0, FixedOne, Infinity}

\* the masks of a filter: the player's, single layers, and the default
FilterMasks == {{"LevelGeometry"}, {"Default"}, {"Player", "LevelGeometry"}, GameLayer}

\* the max_distance of a cast: a check distance, a target distance
MaxDistances == {FixedOne, 2 * Skin}

\* a physics world: the caller's collider and a tile
PhysicsWorlds ==
    {{ColliderOf(OwnCollider, own_memberships, 0),
      ColliderOf("tile", tile_memberships, tile_distance)} :
        own_memberships \in {{"Default"}, {"Player"}},
        tile_memberships \in {{"Default"}, {"LevelGeometry"}},
        tile_distance \in {NoHit} \cup CastDistances}

\* a system is about to call shape_cast
CastInit ==
    /\ overflow_checks = FALSE
    /\ heap = [tiles |-> {}, remaining_tiles |-> {}]
    /\ rectangles = <<>>
    /\ pc = "cast_entry"
    /\ tile_size = TestTileSize
    /\ world_rects = <<>>
    /\ level_colliders = <<>>
    /\ rect_call = <<>>
    /\ \E colliders \in PhysicsWorlds : spatial_query = [colliders |-> colliders, queries |-> 0]
    /\ \E x, y \in DirectionComponents, distance \in MaxDistances, mask \in FilterMasks :
          cast_call = [direction |-> Vec2(x, y), distance |-> distance,
                       filter |-> SpatialQueryFilter(mask), result |-> None]
    /\ TickIdle

CallShapeCast ==
    /\ pc = "cast_entry"
    /\ \E out \in shape_cast(spatial_query.colliders, cast_call.direction,
                             cast_call.distance, cast_call.filter) :
          /\ cast_call' = [cast_call EXCEPT !.result = out.hit]
          /\ spatial_query' = [spatial_query EXCEPT !.queries = @ + out.queries]
    /\ pc' = "cast_returned"
    /\ UNCHANGED <<overflow_checks, heap, rectangles, tile_size, world_rects, level_colliders, rect_call, tick_vars>>

CastNext == CallShapeCast

CastSpec == CastInit /\ [][CastNext]_vars

\* C25 as stated: a cast with the zero direction returns None and makes no
\* query; a cast with any other direction makes exactly one query
C25_OneQueryUnlessZero ==
    pc = "cast_returned" =>
        IF cast_call.direction = Vec2(0, 0)
        THEN cast_call.result = None /\ spatial_query.queries = 0
        ELSE spatial_query.queries = 1

\* C25: a cast whose direction cannot be normalized (its length is zero or
\* not finite) returns None and makes no query; a cast whose direction has a
\* finite length greater than zero makes exactly one query
C25_OneQueryIfNormalizable ==
    pc = "cast_returned" =>
        IF cast_call.direction = Vec2(0, 0)
              \/ IsInfinite(cast_call.direction.x) \/ IsInfinite(cast_call.direction.y)
        THEN cast_call.result = None /\ spatial_query.queries = 0
        ELSE spatial_query.queries = 1

\* a cast with the zero direction has returned None although a tile of the
\* filter's layer lies within its distance
C25_Witness ==
    /\ pc = "cast_returned"
    /\ cast_call.direction = Vec2(0, 0)
    /\ cast_call.result = None
    /\ spatial_query.queries = 0
    /\ cast_shape(spatial_query.colliders, cast_call.distance, cast_call.filter) # {None}

\* C26: a cast never reports the caller's own collider, and the collider it
\* reports is a member of a layer of the filter's mask
C26_SelfExcludedAndFiltered ==
    pc = "cast_returned" /\ cast_call.result # None =>
        /\ cast_call.result.entity # OwnCollider
        /\ \E collider \in spatial_query.colliders :
              /\ collider.entity = cast_call.result.entity
              /\ collider.memberships \cap cast_call.filter.mask # {}

-----------------------------------------------------------------------------
(* setup_level *)

(* The level's geometry layer is its int grid; heap.tiles holds the cells  *)
(* of value 1.  A static collider is the rectangle of cells it covers.     *)

\* merge_tiles, lines 56-77, as a function: the sets of rectangles it can
\* return for a set of tiles away from the edge of the i64 range
RECURSIVE merge_tiles(_)
merge_tiles(tiles) ==
    IF tiles = {} THEN {{}}
    ELSE UNION {{{best_rect} \cup rest : rest \in merge_tiles(tiles \ get_covered_tiles(best_rect).tiles)} :
                   best_rect \in find_best_rectangle(tiles)}

\* the cells of a set in the order of the int grid: row by row
RECURSIVE InGridOrder(_)
InGridOrder(tiles) ==
    IF tiles = {} THEN <<>>
    ELSE <<FirstTile(tiles)>> \o InGridOrder(tiles \ {FirstTile(tiles)})

\* setup_level, lines 44-65: a MergedTileColliderBundle of one tile for every cell of value 1
TileColliders(tiles) ==
    [i \in 1..Cardinality(tiles) |->
        Rectangle(InGridOrder(tiles)[i].x, InGridOrder(tiles)[i].y, 1, 1)]

\* the levels: the cells of value 1 of a grid of GridW x GridH cells
Levels == {solid \in SUBSET Window : Cardinality(solid) <= MaxTiles}

\* OnEnter(GameState::Game): the level is about to be set up
LevelInit ==
    /\ overflow_checks = FALSE
    /\ \E solid \in Levels : heap = [tiles |-> solid, remaining_tiles |-> {}]
    /\ rectangles = <<>>
    /\ pc = "level_entry"
    /\ tile_size = TestTileSize
    /\ world_rects = <<>>
    /\ PhysicsIdle
    /\ TickIdle

\* setup_level, lines 42-86: the colliders are spawned as children of the level
SetupLevel ==
    /\ pc = "level_entry"
    /\ level_colliders' = TileColliders(heap.tiles)
    /\ pc' = "level_spawned"
    /\ UNCHANGED <<overflow_checks, heap, rectangles, tile_size, world_rects,
                   spatial_query, cast_call, rect_call, tick_vars>>

LevelNext == SetupLevel

LevelSpec == LevelInit /\ [][LevelNext]_vars

\* C27: the static colliders of a loaded level are the rectangles merge_tiles
\* returns for the level's solid tiles, one collider for each rectangle
C27_CollidersAreMergedRectangles ==
    pc = "level_spawned" =>
        /\ {level_colliders[i] : i \in 1..Len(level_colliders)} \in merge_tiles(heap.tiles)
        /\ Len(level_colliders) \in {Cardinality(merged) : merged \in merge_tiles(heap.tiles)}

-----------------------------------------------------------------------------
(* The systems, per entity: c is the entity's components *)

\* check_grounded_state without the reset of lines 118-120
check_grounded_state_no_reset(c, hit) ==
    IF ~c.collider_child THEN c
    ELSE IF hit # NoHit
         THEN [c EXCEPT !.is_grounded = TRUE,
                        !.velocity.y = clamp(@, 0, Infinity)]
         ELSE [c EXCEPT !.is_grounded = FALSE,
                        !.grounded_stopwatch = @ + time_delta]

\* check_grounded_state without the tick of lines 123-125
check_grounded_state_no_tick(c, hit) ==
    IF ~c.collider_child THEN c
    ELSE IF hit # NoHit
         THEN [c EXCEPT !.is_grounded = TRUE,
                        !.velocity.y = clamp(@, 0, Infinity),
                        !.grounded_stopwatch = 0]
         ELSE [c EXCEPT !.is_grounded = FALSE]

\* check_grounded_state without the `continue` of lines 99-101
check_grounded_state_collider_unchecked(c, hit) ==
    IF hit # NoHit
    THEN [c EXCEPT !.is_grounded = TRUE,
                   !.velocity.y = clamp(@, 0, Infinity),
                   !.grounded_stopwatch = 0]
    ELSE [c EXCEPT !.is_grounded = FALSE,
                   !.grounded_stopwatch = @ + time_delta]

\* check_grounded_state, lines 91-127
check_grounded_state(c, hit) ==
    IF ~c.collider_child THEN c
    ELSE IF hit # NoHit
         THEN [c EXCEPT !.is_grounded = TRUE,
                        !.velocity.y = clamp(@, 0, Infinity),
                        !.grounded_stopwatch = 0]
         ELSE [c EXCEPT !.is_grounded = FALSE,
                        !.grounded_stopwatch = @ + time_delta]

\* check_ceiling_state without the set_elapsed of lines 179-182
check_ceiling_state_timer_untouched(c, hit) ==
    IF ~c.collider_child THEN c
    ELSE IF hit # NoHit
         THEN [c EXCEPT !.is_touching_ceiling = TRUE,
                        !.velocity.y = clamp(@, -Infinity, -FixedOne)]
         ELSE [c EXCEPT !.is_touching_ceiling = FALSE]

\* check_ceiling_state, lines 146-186
check_ceiling_state(c, hit) ==
    IF ~c.collider_child THEN c
    ELSE IF hit # NoHit
         THEN [c EXCEPT !.is_touching_ceiling = TRUE,
                        !.velocity.y = clamp(@, -Infinity, -FixedOne),
                        !.after_jump_gravity_immunity_timer = set_elapsed(@, @.duration)]
         ELSE [c EXCEPT !.is_touching_ceiling = FALSE]

\* check_wall_left_state, lines 203-231
check_wall_left_state(c, hit) ==
    IF ~c.collider_child THEN c
    ELSE IF hit # NoHit
         THEN [c EXCEPT !.is_touching_wall_left = TRUE,
                        !.velocity.x = clamp(@, 0, Infinity)]
         ELSE [c EXCEPT !.is_touching_wall_left = FALSE]

\* check_wall_right_state, lines 248-277: line 272 clamps to [0, INFINITY] as the left check does
check_wall_right_state(c, hit) ==
    IF ~c.collider_child THEN c
    ELSE IF hit # NoHit
         THEN [c EXCEPT !.is_touching_wall_right = TRUE,
                        !.velocity.x = clamp(@, 0, Infinity)]
         ELSE [c EXCEPT !.is_touching_wall_right = FALSE]

\* the overrides without the wall blocks of lines 320-330
overridden_velocity_walls_ignored(c) ==
    LET dead_zone == IF -FixedOne < c.velocity.x /\ c.velocity.x < FixedOne
                     THEN [c.velocity EXCEPT !.x = 0] ELSE c.velocity
    IN  IF c.is_touching_ceiling /\ dead_zone.y > 0
        THEN [dead_zone EXCEPT !.y = -FixedOne] ELSE dead_zone

\* the overrides with a dead zone that takes in -1.0 and 1.0
overridden_velocity_dead_zone_inclusive(c) ==
    LET dead_zone == IF -FixedOne <= c.velocity.x /\ c.velocity.x <= FixedOne
                     THEN [c.velocity EXCEPT !.x = 0] ELSE c.velocity
        wall_left == IF c.is_touching_wall_left /\ dead_zone.x < 0
                     THEN [dead_zone EXCEPT !.x = 0] ELSE dead_zone
        wall_right == IF c.is_touching_wall_right /\ wall_left.x > 0
                      THEN [wall_left EXCEPT !.x = 0] ELSE wall_left
    IN  IF c.is_touching_ceiling /\ wall_right.y > 0
        THEN [wall_right EXCEPT !.y = -FixedOne] ELSE wall_right

\* apply_velocity, lines 316-336: the dead zone and the wall and ceiling overrides
overridden_velocity(c) ==
    LET dead_zone == IF -FixedOne < c.velocity.x /\ c.velocity.x < FixedOne
                     THEN [c.velocity EXCEPT !.x = 0] ELSE c.velocity
        wall_left == IF c.is_touching_wall_left /\ dead_zone.x < 0
                     THEN [dead_zone EXCEPT !.x = 0] ELSE dead_zone
        wall_right == IF c.is_touching_wall_right /\ wall_left.x > 0
                      THEN [wall_left EXCEPT !.x = 0] ELSE wall_left
    IN  IF c.is_touching_ceiling /\ wall_right.y > 0
        THEN [wall_right EXCEPT !.y = -FixedOne] ELSE wall_right

\* apply_velocity, lines 338-340: the entity is moved in this frame
moves(c) ==
    /\ c.collider_child
    /\ length(overridden_velocity(c)) # 0
    /\ length(overridden_velocity(c)) # Infinity

\* apply_velocity, line 342
target_distance(c) == TimesDeltaSecs(length(overridden_velocity(c)))

\* apply_velocity, line 354
actual_distance(target, hit) ==
    IF hit = NoHit THEN target ELSE hit - Skin

\* the results the cast of line 343 can give: nothing, or a hit within max_distance
CastOutcomes(c) ==
    IF moves(c) THEN {NoHit} \cup {d \in CastDistances : d <= target_distance(c)}
    ELSE {NoHit}

\* apply_velocity that stops the entity when the cast of line 343 hits
apply_velocity_stops_on_hit(c, hit) ==
    IF ~c.collider_child THEN c
    ELSE IF ~moves(c) THEN [c EXCEPT !.velocity = overridden_velocity(c)]
    ELSE LET velocity == overridden_velocity(c)
             step == NormalizeTimes(velocity, actual_distance(target_distance(c), hit))
         IN  [c EXCEPT !.velocity = IF hit = NoHit THEN velocity ELSE Vec2(0, 0),
                       !.transform = Vec2(@.x + step.x, @.y + step.y)]

\* apply_velocity, lines 307-360
apply_velocity(c, hit) ==
    IF ~c.collider_child THEN c
    ELSE IF ~moves(c) THEN [c EXCEPT !.velocity = overridden_velocity(c)]
    ELSE LET velocity == overridden_velocity(c)
             step == NormalizeTimes(velocity, actual_distance(target_distance(c), hit))
         IN  [c EXCEPT !.velocity = velocity,
                       !.transform = Vec2(@.x + step.x, @.y + step.y)]

\* the jump condition with the cooldown gating both branches
jump_permitted_cooldown_first(c) ==
    (c.is_grounded \/ c.grounded_stopwatch < coyote_time) /\ finished(c.jump_cooldown_timer)

\* the jump condition with the coyote time included in the window
jump_permitted_coyote_inclusive(c) ==
    c.is_grounded \/ (c.grounded_stopwatch <= coyote_time /\ finished(c.jump_cooldown_timer))

\* apply_controls, lines 337-339
jump_permitted(c) ==
    c.is_grounded \/ (c.grounded_stopwatch < coyote_time /\ finished(c.jump_cooldown_timer))

\* apply_controls, lines 310-334: direction.x
walk_direction(c) ==
    IF "Left" \in action_state
    THEN IF c.velocity.x > -walk_speed THEN -TimesDeltaSecs(walk_acceleration) ELSE 0
    ELSE IF "Right" \in action_state
    THEN IF c.velocity.x < walk_speed THEN TimesDeltaSecs(walk_acceleration) ELSE 0
    ELSE IF c.velocity.x < 0
    THEN clamp(TimesDeltaSecs(walk_deceleration), c.velocity.x, walk_deceleration)
    ELSE IF c.velocity.x > 0
    THEN clamp(-TimesDeltaSecs(walk_deceleration), -walk_deceleration, c.velocity.x)
    ELSE 0

\* apply_controls, lines 305 and 336-347: the entity jumps in this frame
just_jumped(c) ==
    /\ "Jump" \in action_state
    /\ jump_permitted([c EXCEPT !.jump_cooldown_timer = tick(@, time_delta)])

\* apply_controls without the reset of the immunity timer of line 342
apply_controls_immunity_kept(c) ==
    LET ticked == [c EXCEPT !.jump_cooldown_timer = tick(@, time_delta)]
        walked == [ticked EXCEPT !.velocity.x = AddVel(@, walk_direction(c))]
    IN  IF just_jumped(c)
        THEN [walked EXCEPT !.velocity.y = AddVel(@, jump_force),
                            !.jump_cooldown_timer = reset(@)]
        ELSE walked

\* apply_controls, lines 303-354
apply_controls(c) ==
    LET ticked == [c EXCEPT !.jump_cooldown_timer = tick(@, time_delta)]
        walked == [ticked EXCEPT !.velocity.x = AddVel(@, walk_direction(c))]
    IN  IF just_jumped(c)
        THEN [walked EXCEPT !.velocity.y = AddVel(@, jump_force),
                            !.after_jump_gravity_immunity_timer = reset(@),
                            !.jump_cooldown_timer = reset(@)]
        ELSE walked

\* toggle_gravity, lines 256-263
toggle_gravity(c) ==
    LET timer == tick(c.after_jump_gravity_immunity_timer, time_delta)
    IN  [c EXCEPT !.after_jump_gravity_immunity_timer = timer,
                  !.gravity_enabled = finished(timer) \/ "Jump" \notin action_state]

\* apply_gravity, lines 16-26
apply_gravity(c) ==
    IF c.gravity_enabled /\ c.velocity.y > -max_fall_speed /\ ~c.is_grounded
    THEN [c EXCEPT !.velocity.y = AddVel(@, -TimesDeltaSecs(gravity))]
    ELSE c

-----------------------------------------------------------------------------
(* The Update schedule *)

\* the systems of the Update schedule that read or write the components above
Systems ==
    {"apply_controls", "toggle_gravity", "apply_gravity",
     "check_grounded_state", "check_wall_left_state", "check_wall_right_state",
     "check_ceiling_state", "apply_velocity"}

\* the systems of the jump: they read or write the grounded flag, the
\* stopwatch, the two timers and the gravity switch
JumpSystems == {"apply_controls", "toggle_gravity", "apply_gravity", "check_grounded_state"}

\* the entity spawn_player spawns
Player == 1

\* the deltas of a frame: none (the first frame, a paused clock), 200 ms, 300 ms
Deltas == {0, 2, 3}

\* the input of a frame
ActionStates == {{}, {"Jump"}, {"Left"}, {"Right"}}

\* the velocities the entity can start with
InitVelocities == {Vec2(0, 0), Vec2(Infinity, 0)}

\* spawn_player, lines 199-246
Spawned(velocity, collider_child) ==
    [collider_child |-> collider_child,
     transform |-> Vec2(0, 0),
     velocity |-> velocity,
     is_grounded |-> FALSE,
     is_touching_wall_left |-> FALSE,
     is_touching_wall_right |-> FALSE,
     is_touching_ceiling |-> FALSE,
     grounded_stopwatch |-> 0,
     after_jump_gravity_immunity_timer |-> Timer(gravity_immunity_duration),
     jump_cooldown_timer |-> Timer(jump_cooldown_duration),
     gravity_enabled |-> TRUE]

\* the locals of one system's loop body for one entity
Locals(before, hit, jumped, cast, target, actual) ==
    [before |-> before, hit |-> hit, just_jumped |-> jumped,
     cast |-> cast, target_distance |-> target, actual_distance |-> actual]

\* the elapsed times the stopwatch and the cooldown timer can start a frame with
InitElapsed == {0, coyote_time}

merger_vars == <<overflow_checks, heap, rectangles, pc, world_vars>>

MergerIdle ==
    /\ overflow_checks = FALSE
    /\ heap = [tiles |-> {}, remaining_tiles |-> {}]
    /\ rectangles = <<>>
    /\ pc = "running"
    /\ tile_size = TestTileSize
    /\ world_rects = <<>>
    /\ PhysicsIdle

\* the ground checks of an entity since its last hit: it has just hit, or it
\* has never hit since it was spawned.  Of its jumps the history keeps
\* where the entity is after the last impulse ("jumped": the impulse was
\* added, "left": a ground check has since cleared the grounded flag,
\* "none": the flag has been set again, or there was no impulse), the time
\* since the last impulse up to the cooldown (-1: there was none), whether
\* Jump was pressed in every control step since, and whether the impulse of
\* this frame came after the entity had left the ground or early.
NotAirborne ==
    [ticks |-> 0, deltas |-> 0, since_hit |-> TRUE,
     refused |-> FALSE, buffered |-> FALSE, landed |-> FALSE, impulse |-> FALSE,
     jump_phase |-> "none", since_impulse |-> -1, held |-> FALSE,
     midair |-> FALSE, early |-> FALSE]

NeverGrounded == [NotAirborne EXCEPT !.since_hit = FALSE]

\* the history after a ground check of the entity c: a hit ends the time in
\* the air, and the entity lands if it was not grounded
GroundChecked(history, c, hit) ==
    IF ~c.collider_child THEN history
    ELSE IF hit # NoHit
         THEN [history EXCEPT !.ticks = 0, !.deltas = 0, !.since_hit = TRUE,
                              !.landed = ~c.is_grounded,
                              !.jump_phase = IF @ = "left" THEN "none" ELSE @]
         ELSE [history EXCEPT !.ticks = @ + 1, !.deltas = @ + time_delta,
                              !.jump_phase = IF @ = "jumped" THEN "left" ELSE @]

\* the history after the control step of the entity c: a jump request in the
\* air was refused, or the impulse was added
Controlled(history, c) ==
    LET since == IF history.since_impulse < 0 THEN -1
                 ELSE IF history.since_impulse + time_delta >= jump_cooldown_duration
                 THEN jump_cooldown_duration
                 ELSE history.since_impulse + time_delta
    IN  [history EXCEPT !.refused = "Jump" \in action_state /\ ~just_jumped(c) /\ ~c.is_grounded,
                        !.impulse = just_jumped(c),
                        !.midair = just_jumped(c) /\ history.jump_phase = "left",
                        !.early = /\ just_jumped(c)
                                  /\ history.held
                                  /\ since >= 0
                                  /\ since < jump_cooldown_duration,
                        !.jump_phase = IF just_jumped(c) THEN "jumped" ELSE @,
                        !.since_impulse = IF just_jumped(c) THEN 0 ELSE since,
                        !.held = IF just_jumped(c) THEN TRUE
                                 ELSE @ /\ "Jump" \in action_state]

\* the history at the start of the next frame: a request refused in the frame
\* that ends is the only thing a later frame could act on
NextFrame(history) ==
    [history EXCEPT !.buffered = history.refused,
                    !.refused = FALSE, !.landed = FALSE, !.impulse = FALSE,
                    !.midair = FALSE, !.early = FALSE]

\* the start of a frame in the middle of a game: the entity is in the air,
\* the clock and the input of the frame are set
TickInit ==
    /\ MergerIdle
    /\ \E velocity \in InitVelocities, collider_child \in BOOLEAN, stopwatch, cooldown \in InitElapsed :
          entities = [e \in {Player} |->
                        [Spawned(velocity, collider_child) EXCEPT
                            !.grounded_stopwatch = stopwatch,
                            !.jump_cooldown_timer = set_elapsed(@, cooldown)]]
    /\ time_delta \in Deltas
    /\ action_state \in ActionStates
    /\ update_ran = {}
    /\ frame = 1
    /\ locals = NoLocals
    /\ airborne = [e \in {Player} |-> NeverGrounded]

\* the player has just been spawned
JumpInit ==
    /\ MergerIdle
    /\ entities = [e \in {Player} |-> Spawned(Vec2(0, 0), TRUE)]
    /\ time_delta = 0
    /\ action_state = {}
    /\ update_ran = JumpSystems
    /\ frame = 0
    /\ locals = NoLocals
    /\ airborne = [e \in {Player} |-> NeverGrounded]

\* the runner starts a frame: the clock and the input are updated before Update runs
BeginFrame ==
    /\ update_ran = JumpSystems
    /\ frame < MaxFrames
    /\ frame' = frame + 1
    /\ time_delta' \in Deltas
    /\ action_state' \in ActionStates
    /\ update_ran' = {}
    /\ locals' = NoLocals
    /\ airborne' = [e \in DOMAIN entities |-> NextFrame(airborne[e])]
    /\ UNCHANGED <<entities, merger_vars>>

\* a system of the Update schedule runs once in a frame
RunsInFrame(system) ==
    /\ frame > 0
    /\ system \notin update_ran
    /\ update_ran' = update_ran \cup {system}
    /\ UNCHANGED <<time_delta, action_state, frame, merger_vars>>

\* the locals of a system that casts no shape
NoCast(before) == Locals(before, NoHit, FALSE, FALSE, 0, 0)

\* the locals of a contact check
Probe(before, hit) == Locals(before, hit, FALSE, before.collider_child, 0, 0)

\* the answers of the spatial query to the probes of a contact check: an
\* entity without a collider child casts nothing
ProbeResults ==
    {hits \in [DOMAIN entities -> ProbeOutcomes] :
        \A e \in DOMAIN entities : ~entities[e].collider_child => hits[e] = NoHit}

ApplyControls ==
    /\ RunsInFrame("apply_controls")
    /\ airborne' = [e \in DOMAIN entities |-> Controlled(airborne[e], entities[e])]
    /\ entities' = [e \in DOMAIN entities |-> apply_controls(entities[e])]
    /\ locals' = [system |-> "apply_controls",
                  of |-> [e \in DOMAIN entities |->
                            Locals(entities[e], NoHit, just_jumped(entities[e]), FALSE, 0, 0)]]

ToggleGravity ==
    /\ RunsInFrame("toggle_gravity")
    /\ UNCHANGED airborne
    /\ entities' = [e \in DOMAIN entities |-> toggle_gravity(entities[e])]
    /\ locals' = [system |-> "toggle_gravity",
                  of |-> [e \in DOMAIN entities |-> NoCast(entities[e])]]

ApplyGravity ==
    /\ RunsInFrame("apply_gravity")
    /\ UNCHANGED airborne
    /\ entities' = [e \in DOMAIN entities |-> apply_gravity(entities[e])]
    /\ locals' = [system |-> "apply_gravity",
                  of |-> [e \in DOMAIN entities |-> NoCast(entities[e])]]

CheckGroundedState ==
    /\ RunsInFrame("check_grounded_state")
    /\ \E hits \in ProbeResults :
          /\ entities' = [e \in DOMAIN entities |-> check_grounded_state(entities[e], hits[e])]
          /\ locals' = [system |-> "check_grounded_state",
                        of |-> [e \in DOMAIN entities |-> Probe(entities[e], hits[e])]]
          /\ airborne' = [e \in DOMAIN entities |-> GroundChecked(airborne[e], entities[e], hits[e])]

CheckWallLeftState ==
    /\ RunsInFrame("check_wall_left_state")
    /\ UNCHANGED airborne
    /\ \E hits \in ProbeResults :
          /\ entities' = [e \in DOMAIN entities |-> check_wall_left_state(entities[e], hits[e])]
          /\ locals' = [system |-> "check_wall_left_state",
                        of |-> [e \in DOMAIN entities |-> Probe(entities[e], hits[e])]]

CheckWallRightState ==
    /\ RunsInFrame("check_wall_right_state")
    /\ UNCHANGED airborne
    /\ \E hits \in ProbeResults :
          /\ entities' = [e \in DOMAIN entities |-> check_wall_right_state(entities[e], hits[e])]
          /\ locals' = [system |-> "check_wall_right_state",
                        of |-> [e \in DOMAIN entities |-> Probe(entities[e], hits[e])]]

CheckCeilingState ==
    /\ RunsInFrame("check_ceiling_state")
    /\ UNCHANGED airborne
    /\ \E hits \in ProbeResults :
          /\ entities' = [e \in DOMAIN entities |-> check_ceiling_state(entities[e], hits[e])]
          /\ locals' = [system |-> "check_ceiling_state",
                        of |-> [e \in DOMAIN entities |-> Probe(entities[e], hits[e])]]

ApplyVelocity ==
    /\ RunsInFrame("apply_velocity")
    /\ UNCHANGED airborne
    /\ \E hits \in [DOMAIN entities -> {NoHit} \cup CastDistances] :
          /\ \A e \in DOMAIN entities : hits[e] \in CastOutcomes(entities[e])
          /\ entities' = [e \in DOMAIN entities |-> apply_velocity(entities[e], hits[e])]
          /\ locals' = [system |-> "apply_velocity",
                        of |-> [e \in DOMAIN entities |->
                                  IF moves(entities[e])
                                  THEN Locals(entities[e], hits[e], FALSE, TRUE,
                                              target_distance(entities[e]),
                                              actual_distance(target_distance(entities[e]), hits[e]))
                                  ELSE NoCast(entities[e])]]

\* the systems of a frame run in any order: none of the three plugins orders them
TickNext ==
    \/ ApplyControls
    \/ ToggleGravity
    \/ ApplyGravity
    \/ CheckGroundedState
    \/ CheckWallLeftState
    \/ CheckWallRightState
    \/ CheckCeilingState
    \/ ApplyVelocity

\* one run of the Update schedule
TickSpec == TickInit /\ [][TickNext]_vars

JumpNext ==
    \/ BeginFrame
    \/ ApplyControls
    \/ ToggleGravity
    \/ ApplyGravity
    \/ CheckGroundedState

\* the frames of a game, the systems of the jump running in every frame
JumpSpec == JumpInit /\ [][JumpNext]_vars

\* the components of the velocities a movement step can start with: in the
\* dead zone, on its edge, outside it, and not finite
MoveComponents ==
    {-Infinity, -2 * FixedOne, -FixedOne, -(FixedOne \div 2), 0,
     FixedOne \div 2, FixedOne, 2 * FixedOne, Infinity}

\* the start of the movement step of a frame: the velocity and the contact
\* flags are as the other systems left them
MoveInit ==
    /\ MergerIdle
    /\ \E x, y \in MoveComponents, collider_child, wall_left, wall_right, ceiling \in BOOLEAN :
          entities = [e \in {Player} |->
                        [Spawned(Vec2(x, y), collider_child) EXCEPT
                            !.is_touching_wall_left = wall_left,
                            !.is_touching_wall_right = wall_right,
                            !.is_touching_ceiling = ceiling]]
    /\ time_delta \in Deltas
    /\ action_state = {}
    /\ update_ran = {}
    /\ frame = 1
    /\ locals = NoLocals
    /\ airborne = [e \in {Player} |-> NeverGrounded]

MoveNext == ApplyVelocity

\* the movement step of one frame
MoveSpec == MoveInit /\ [][MoveNext]_vars

-----------------------------------------------------------------------------
(* plugins/_claude_collision.rs: the axis-separated movement *)

(* The file is not a module of the crate (plugins/mod.rs, line 1, names a   *)
(* `_clause_collision` in a comment); its system is modelled as it would    *)
(* run if KinematicCollisionPlugin were added.  Here a velocity is in       *)
(* tenths of a unit per second as above, the delta of a frame and           *)
(* time_since_grounded are in milliseconds, and a length is in              *)
(* ten-thousandths of a unit, the product of the two.  The velocities are   *)
(* finite.  slope_angle is a function of ground_normal and is not kept.     *)

\* the 0.001 of lines 116, 134 and 149
MovementThreshold == 10

\* the 0.001 of line 212
SafeMargin == 10

\* CollisionConfig::default().slope_threshold is 45 degrees: the angle of the
\* normal to Vec2::Y is greater if the normal's y is less than cos 45 of its length
Steep(normal) == normal.y < 0 \/ 2 * normal.y * normal.y < normal.x * normal.x + normal.y * normal.y

\* CollisionState::default()
CollisionStateDefault ==
    [grounded |-> FALSE, against_left_wall |-> FALSE, against_right_wall |-> FALSE,
     touching_ceiling |-> FALSE,
     ground_normal |-> Vec2(0, 0), left_wall_normal |-> Vec2(0, 0),
     right_wall_normal |-> Vec2(0, 0), ceiling_normal |-> Vec2(0, 0),
     on_slope |-> FALSE, ledge_left |-> FALSE, ledge_right |-> FALSE,
     last_ground_position |-> Vec2(0, 0), time_since_grounded |-> 0]

\* spawn_kinematic_entity, lines 413-430
SpawnedKinematic(initial_velocity) ==
    [transform |-> Vec2(0, 0), velocity |-> initial_velocity,
     collision_state |-> CollisionStateDefault]

\* no hit of a cast of the variant
NoContact == [distance |-> NoHit, normal |-> Vec2(0, 0)]

Contact(distance, normal) == [distance |-> distance, normal |-> normal]

Sign(a) == IF a > 0 THEN 1 ELSE IF a < 0 THEN -1 ELSE 0

\* apply_movement_axis, lines 182-261: b is the body (transform, velocity and
\* the new collision state), movement lies along one axis and is longer than
\* the threshold, hit is the answer of cast_shape
apply_movement_axis(b, movement, is_horizontal, hit) ==
    IF hit = NoContact
    THEN [b EXCEPT !.transform = Vec2(@.x + movement.x, @.y + movement.y)]
    ELSE LET safe_distance == Max0(hit.distance - SafeMargin)
             moved == [b EXCEPT !.transform = Vec2(@.x + Sign(movement.x) * safe_distance,
                                                   @.y + Sign(movement.y) * safe_distance)]
             normal == hit.normal
         IN  IF is_horizontal
             THEN LET stopped == [moved EXCEPT !.velocity.x = 0]
                  IN  IF 2 * normal.x > FixedOne
                      THEN [stopped EXCEPT !.collision_state.against_left_wall = TRUE,
                                           !.collision_state.left_wall_normal = normal]
                      ELSE IF 2 * normal.x < -FixedOne
                      THEN [stopped EXCEPT !.collision_state.against_right_wall = TRUE,
                                           !.collision_state.right_wall_normal = normal]
                      ELSE stopped
             ELSE IF 2 * normal.y > FixedOne
                  THEN [moved EXCEPT !.collision_state.grounded = TRUE,
                                     !.collision_state.ground_normal = normal,
                                     !.collision_state.on_slope = Steep(normal),
                                     !.velocity.y = IF @ < 0 THEN @ ELSE 0]
                  ELSE IF 2 * normal.y < -FixedOne
                  THEN [moved EXCEPT !.collision_state.touching_ceiling = TRUE,
                                     !.collision_state.ceiling_normal = normal,
                                     !.velocity.y = IF @ > 0 THEN @ ELSE 0]
                  ELSE moved

\* update_static_collision_state, lines 263-355: rays are the answers of the
\* six casts, the two ledge casts being made only against a wall
update_static_collision_state(state, rays) ==
    LET ground == IF rays.ground = NoContact THEN state
                  ELSE [state EXCEPT !.grounded = TRUE,
                                     !.ground_normal = rays.ground.normal,
                                     !.on_slope = @ \/ Steep(rays.ground.normal)]
        left == IF rays.left = NoContact THEN ground
                ELSE [ground EXCEPT !.against_left_wall = TRUE,
                                    !.left_wall_normal = rays.left.normal]
        right == IF rays.right = NoContact THEN left
                 ELSE [left EXCEPT !.against_right_wall = TRUE,
                                   !.right_wall_normal = rays.right.normal]
        ceiling == IF rays.ceiling = NoContact THEN right
                   ELSE [right EXCEPT !.touching_ceiling = TRUE]
    IN  [ceiling EXCEPT !.ledge_left = ceiling.against_left_wall /\ rays.ledge_left = NoContact,
                        !.ledge_right = ceiling.against_right_wall /\ rays.ledge_right = NoContact]

\* lines 100 and 130-131, dt being the delta of the frame
desired_translation(b, dt) == Vec2(b.velocity.x * dt, b.velocity.y * dt)

\* line 116: `desired_translation.length() < 0.001`, compared in squares
below_threshold(b, dt) ==
    LET desired == desired_translation(b, dt)
    IN  desired.x * desired.x + desired.y * desired.y < MovementThreshold * MovementThreshold

\* lines 134 and 149
x_pass_runs(b, dt) == ~below_threshold(b, dt) /\ Abs(desired_translation(b, dt).x) > MovementThreshold

y_pass_runs(b, dt) == ~below_threshold(b, dt) /\ Abs(desired_translation(b, dt).y) > MovementThreshold

\* lines 102-114: the new collision state before the casts
new_collision_state(b, dt) ==
    [CollisionStateDefault EXCEPT
        !.last_ground_position = b.collision_state.last_ground_position,
        !.time_since_grounded = IF b.collision_state.grounded THEN 0
                                ELSE b.collision_state.time_since_grounded + dt]

\* lines 129-146: the body after the X pass
after_x_pass(b, dt, x_hit) ==
    LET fresh == [b EXCEPT !.collision_state = new_collision_state(b, dt)]
    IN  IF x_pass_runs(b, dt)
        THEN apply_movement_axis(fresh, Vec2(desired_translation(b, dt).x, 0), TRUE, x_hit)
        ELSE fresh

\* the body after a Y pass that is left out when the X pass has hit
after_y_pass_unless_blocked(b, dt, x_hit, y_hit) ==
    IF y_pass_runs(b, dt) /\ x_hit = NoContact
    THEN apply_movement_axis(after_x_pass(b, dt, x_hit),
                             Vec2(0, desired_translation(b, dt).y), FALSE, y_hit)
    ELSE after_x_pass(b, dt, x_hit)

\* lines 148-161: the body after the Y pass
after_y_pass(b, dt, x_hit, y_hit) ==
    IF y_pass_runs(b, dt)
    THEN apply_movement_axis(after_x_pass(b, dt, x_hit),
                             Vec2(0, desired_translation(b, dt).y), FALSE, y_hit)
    ELSE after_x_pass(b, dt, x_hit)

\* kinematic_movement_with_collision_detection, lines 97-179, for one body
kinematic_movement_with_collision_detection(b, dt, x_hit, y_hit, rays) ==
    IF below_threshold(b, dt)
    THEN [b EXCEPT !.collision_state =
                      update_static_collision_state(new_collision_state(b, dt), rays)]
    ELSE LET moved == after_y_pass(b, dt, x_hit, y_hit)
             final == update_static_collision_state(moved.collision_state, rays)
         IN  [moved EXCEPT !.collision_state =
                              IF final.grounded
                              THEN [final EXCEPT !.last_ground_position = moved.transform,
                                                 !.time_since_grounded = 0]
                              ELSE final]

\* the velocities the other systems leave to the variant: at rest, too slow
\* to pass the threshold in a short frame, and walking, falling or rising
KinematicVelocities ==
    {Vec2(x, y) : x \in {-2 * FixedOne, 0, 1, 2 * FixedOne}, y \in {-2 * FixedOne, 0, 2 * FixedOne}}

\* the deltas of a frame in milliseconds
KinematicDeltas == {0, 5, 16}

\* the collision states a tick can start with: as spawned, in the air for a
\* frame, and grounded by a tick that moved the body
KinematicStates ==
    {CollisionStateDefault,
     [CollisionStateDefault EXCEPT !.time_since_grounded = 16],
     [CollisionStateDefault EXCEPT !.grounded = TRUE, !.ground_normal = Vec2(0, FixedOne)]}

\* the hits cast_shape can report to a pass along the movement: at the
\* origin or further on, with the normal of a wall, of the ground or of a ceiling
AxisContacts(movement, normals) ==
    {NoContact} \cup
    {Contact(distance, normal) : distance \in {d \in {0, 3 * SafeMargin} : d <= Abs(movement)},
                                 normal \in normals}

XNormals == {Vec2(FixedOne, 0), Vec2(-FixedOne, 0), Vec2(0, FixedOne)}

YNormals == {Vec2(0, FixedOne), Vec2(0, -FixedOne), Vec2(8, 6)}

RayContacts(normals) == {NoContact} \cup {Contact(FixedOne, normal) : normal \in normals}

\* the answers of the rays of update_static_collision_state
StaticRays(b_after) ==
    {rays \in [ground : RayContacts({Vec2(0, FixedOne)}),
               left : RayContacts({Vec2(FixedOne, 0)}),
               right : RayContacts({Vec2(-FixedOne, 0)}),
               ceiling : RayContacts({Vec2(0, -FixedOne)}),
               ledge_left : RayContacts({Vec2(0, FixedOne)}),
               ledge_right : RayContacts({Vec2(0, FixedOne)})] :
        /\ (rays.left = NoContact /\ ~b_after.collision_state.against_left_wall) => rays.ledge_left = NoContact
        /\ (rays.right = NoContact /\ ~b_after.collision_state.against_right_wall) => rays.ledge_right = NoContact}

KinematicInit ==
    /\ MergerIdle
    /\ \E velocity \in KinematicVelocities, state \in KinematicStates :
          entities = [e \in {Player} |->
                        [SpawnedKinematic(velocity) EXCEPT !.collision_state = state]]
    /\ time_delta \in KinematicDeltas
    /\ action_state = {}
    /\ update_ran = {}
    /\ frame = 1
    /\ locals = NoLocals
    /\ airborne = <<>>

\* the system runs for the bodies of its query; locals keeps the body as it
\* was, the answers of the casts and the body between the two passes
KinematicMovement ==
    /\ RunsInFrame("kinematic_movement_with_collision_detection")
    /\ UNCHANGED airborne
    /\ \E e \in DOMAIN entities :
          LET b == entities[e]
              desired == desired_translation(b, time_delta)
          IN  \E x_hit \in IF x_pass_runs(b, time_delta) THEN AxisContacts(desired.x, XNormals) ELSE {NoContact},
                 y_hit \in IF y_pass_runs(b, time_delta) THEN AxisContacts(desired.y, YNormals) ELSE {NoContact} :
                 \E rays \in StaticRays(IF below_threshold(b, time_delta) THEN b
                                        ELSE after_y_pass(b, time_delta, x_hit, y_hit)) :
                    /\ entities' = [entities EXCEPT ![e] =
                                       kinematic_movement_with_collision_detection(b, time_delta, x_hit, y_hit, rays)]
                    /\ locals' = [system |-> "kinematic_movement_with_collision_detection",
                                  of |-> [f \in {e} |->
                                            [before |-> b, x_hit |-> x_hit, y_hit |-> y_hit, rays |-> rays,
                                             x_pass |-> x_pass_runs(b, time_delta),
                                             y_pass |-> y_pass_runs(b, time_delta),
                                             static_only |-> below_threshold(b, time_delta),
                                             between |-> after_x_pass(b, time_delta, x_hit).transform]]]

KinematicNext == KinematicMovement

\* one run of the variant's system
KinematicSpec == KinematicInit /\ [][KinematicNext]_vars

-----------------------------------------------------------------------------
(* The systems over several bodies *)

(* A system is a loop over the entities its query matches, in an order the *)
(* query chooses.  Here one step is one pass of a system's loop body, for  *)
(* one entity; a system that has begun its loop ends it before a system    *)
(* that touches the same components begins.  `locals` keeps the entities   *)
(* as they were when the loop began and the locals of the passes made.     *)

\* a second entity that carries the CollisionBundle, the gravity and the timers
Other == 2

Bodies == {Player, Other}

\* the velocities the bodies start the frame with: the player falling, the
\* other body rising to the right
BodyVelocities == [e \in Bodies |-> IF e = Player THEN Vec2(0, -2 * FixedOne)
                                    ELSE Vec2(2 * FixedOne, FixedOne)]

\* the systems of the collision plugin
CollisionSystems ==
    {"check_grounded_state", "check_wall_left_state", "check_wall_right_state",
     "check_ceiling_state", "apply_velocity"}

\* the start of a frame of 200 ms with two bodies in the air: the other body
\* has its collider, the player has it or has lost it
BodiesInit ==
    /\ MergerIdle
    /\ \E collider_child \in BOOLEAN :
          entities = [e \in Bodies |->
                        Spawned(BodyVelocities[e], e = Other \/ collider_child)]
    /\ time_delta = from_millis(200)
    /\ action_state \in {{}, {"Jump"}}
    /\ update_ran = {}
    /\ frame = 1
    /\ locals = NoLocals
    /\ airborne = [e \in Bodies |-> NeverGrounded]

\* no loop is under way
LoopDone == locals.system = "none" \/ DOMAIN locals.of = DOMAIN entities

\* the loop of `system` makes its pass for e: the loop begins with it, or is
\* under way and has not met e yet
IteratesBody(system, e) ==
    /\ frame > 0
    /\ \/ LoopDone /\ system \notin update_ran
       \/ ~LoopDone /\ locals.system = system /\ e \notin DOMAIN locals.of
    /\ update_ran' = update_ran \cup {system}
    /\ UNCHANGED <<time_delta, action_state, frame, merger_vars>>

\* the locals after the pass for e
BodyLocals(system, e, of_e) ==
    IF LoopDone
    THEN [system |-> system, start |-> entities, of |-> [f \in {e} |-> of_e]]
    ELSE [locals EXCEPT !.of = [f \in DOMAIN locals.of \cup {e} |->
                                   IF f = e THEN of_e ELSE locals.of[f]]]

\* the answers of the spatial query to the probe of e
ProbeResultsOf(e) == IF entities[e].collider_child THEN ProbeOutcomes ELSE {NoHit}

\* the pass of the ground check for e writing the result of e's probe to every entity
CheckGroundedStateOfEvery ==
    \E e \in DOMAIN entities :
        /\ IteratesBody("check_grounded_state", e)
        /\ \E hit \in ProbeResultsOf(e) :
              /\ entities' = [f \in DOMAIN entities |-> check_grounded_state(entities[f], hit)]
              /\ locals' = BodyLocals("check_grounded_state", e, Probe(entities[e], hit))
              /\ airborne' = [airborne EXCEPT ![e] = GroundChecked(@, entities[e], hit)]

CheckGroundedStateOf ==
    \E e \in DOMAIN entities :
        /\ IteratesBody("check_grounded_state", e)
        /\ \E hit \in ProbeResultsOf(e) :
              /\ entities' = [entities EXCEPT ![e] = check_grounded_state(@, hit)]
              /\ locals' = BodyLocals("check_grounded_state", e, Probe(entities[e], hit))
              /\ airborne' = [airborne EXCEPT ![e] = GroundChecked(@, entities[e], hit)]

CheckWallLeftStateOf ==
    \E e \in DOMAIN entities :
        /\ IteratesBody("check_wall_left_state", e)
        /\ UNCHANGED airborne
        /\ \E hit \in ProbeResultsOf(e) :
              /\ entities' = [entities EXCEPT ![e] = check_wall_left_state(@, hit)]
              /\ locals' = BodyLocals("check_wall_left_state", e, Probe(entities[e], hit))

CheckWallRightStateOf ==
    \E e \in DOMAIN entities :
        /\ IteratesBody("check_wall_right_state", e)
        /\ UNCHANGED airborne
        /\ \E hit \in ProbeResultsOf(e) :
              /\ entities' = [entities EXCEPT ![e] = check_wall_right_state(@, hit)]
              /\ locals' = BodyLocals("check_wall_right_state", e, Probe(entities[e], hit))

CheckCeilingStateOf ==
    \E e \in DOMAIN entities :
        /\ IteratesBody("check_ceiling_state", e)
        /\ UNCHANGED airborne
        /\ \E hit \in ProbeResultsOf(e) :
              /\ entities' = [entities EXCEPT ![e] = check_ceiling_state(@, hit)]
              /\ locals' = BodyLocals("check_ceiling_state", e, Probe(entities[e], hit))

ApplyVelocityOf ==
    \E e \in DOMAIN entities :
        /\ IteratesBody("apply_velocity", e)
        /\ UNCHANGED airborne
        /\ \E hit \in CastOutcomes(entities[e]) :
              /\ entities' = [entities EXCEPT ![e] = apply_velocity(@, hit)]
              /\ locals' = BodyLocals("apply_velocity", e,
                               IF moves(entities[e])
                               THEN Locals(entities[e], hit, FALSE, TRUE,
                                           target_distance(entities[e]),
                                           actual_distance(target_distance(entities[e]), hit))
                               ELSE NoCast(entities[e]))

ToggleGravityOf ==
    \E e \in DOMAIN entities :
        /\ IteratesBody("toggle_gravity", e)
        /\ UNCHANGED airborne
        /\ entities' = [entities EXCEPT ![e] = toggle_gravity(@)]
        /\ locals' = BodyLocals("toggle_gravity", e, NoCast(entities[e]))

\* the systems of a frame in any order, each going through the bodies in any order
BodiesNext ==
    \/ CheckGroundedStateOf
    \/ CheckWallLeftStateOf
    \/ CheckWallRightStateOf
    \/ CheckCeilingStateOf
    \/ ApplyVelocityOf
    \/ ToggleGravityOf

\* one run of the collision systems and the gravity switch over two bodies
BodiesSpec == BodiesInit /\ [][BodiesNext]_vars

-----------------------------------------------------------------------------
(* Properties of the per-frame systems *)

Max(a, b) == IF a >= b THEN a ELSE b

\* the system that ran last was `system`
Ran(system) == locals.system = system

\* the components of e before the system that ran last
Before(e) == locals.of[e].before

\* the position of a step in the order of C12
Rank(system) ==
    CASE system \in {"apply_controls", "toggle_gravity", "apply_gravity"} -> 0
      [] system = "check_grounded_state" -> 1
      [] system = "check_ceiling_state" -> 2
      [] system = "check_wall_left_state" -> 3
      [] system = "check_wall_right_state" -> 4
      [] system = "apply_velocity" -> 5

\* C12: within a frame the steps run in one fixed order: input and gravity,
\* the ground check, the ceiling check, the left wall check, the right wall
\* check, the movement step; a step never runs before a step that precedes it
C12_FixedOrder ==
    \A ran \in update_ran, pending \in Systems \ update_ran : Rank(ran) <= Rank(pending)

\* C13: right after a ground check whose probe hit, the entity is grounded,
\* velocity.y is max(previous velocity.y, 0) and the stopwatch is at 0
C13_GroundHit ==
    Ran("check_grounded_state") =>
        \A e \in DOMAIN entities :
            locals.of[e].hit # NoHit =>
                /\ entities[e].is_grounded
                /\ entities[e].velocity.y = Max(Before(e).velocity.y, 0)
                /\ entities[e].velocity.y >= 0
                /\ entities[e].grounded_stopwatch = 0

\* a ground hit stops a falling entity whose stopwatch was running
C13_Witness ==
    /\ Ran("check_grounded_state")
    /\ locals.of[Player].hit # NoHit
    /\ Before(Player).velocity.y < 0
    /\ Before(Player).grounded_stopwatch > 0
    /\ entities[Player].is_grounded
    /\ entities[Player].velocity.y = 0
    /\ entities[Player].grounded_stopwatch = 0

\* C14: right after a ground check whose probe did not hit, the entity is not
\* grounded, the stopwatch has grown by the delta of the frame and the velocity
\* is as before; after k >= 1 ground checks in a row without a hit the
\* stopwatch shows the sum of their deltas
C14_NoGroundHit ==
    /\ Ran("check_grounded_state") =>
          \A e \in DOMAIN entities :
              locals.of[e].cast /\ locals.of[e].hit = NoHit =>
                  /\ ~entities[e].is_grounded
                  /\ entities[e].grounded_stopwatch = Before(e).grounded_stopwatch + time_delta
                  /\ entities[e].velocity = Before(e).velocity
    /\ \A e \in DOMAIN entities :
          airborne[e].ticks >= 1 => entities[e].grounded_stopwatch = airborne[e].deltas

\* two ground checks in a row without a hit, of 200 ms and 300 ms, after a hit
C14_Witness ==
    /\ Ran("check_grounded_state")
    /\ airborne[Player].ticks = 2
    /\ airborne[Player].deltas = from_millis(500)
    /\ time_delta = from_millis(300)
    /\ entities[Player].grounded_stopwatch = from_millis(500)
    /\ ~entities[Player].is_grounded

\* C15: right after a ceiling check whose probe hit, the ceiling flag is set,
\* velocity.y is at most -1 and the gravity-immunity timer has run out; after
\* one whose probe did not hit the flag is clear and the velocity and the timer
\* are as before
C15_CeilingCheck ==
    Ran("check_ceiling_state") =>
        \A e \in DOMAIN entities :
            /\ locals.of[e].hit # NoHit =>
                  /\ entities[e].is_touching_ceiling
                  /\ entities[e].velocity.y <= -FixedOne
                  /\ entities[e].after_jump_gravity_immunity_timer.elapsed
                        >= entities[e].after_jump_gravity_immunity_timer.duration
            /\ locals.of[e].cast /\ locals.of[e].hit = NoHit =>
                  /\ ~entities[e].is_touching_ceiling
                  /\ entities[e].velocity = Before(e).velocity
                  /\ entities[e].after_jump_gravity_immunity_timer
                        = Before(e).after_jump_gravity_immunity_timer

\* a ceiling hit stops a rising entity whose immunity timer was running
C15_Witness ==
    /\ Ran("check_ceiling_state")
    /\ locals.of[Player].hit # NoHit
    /\ Before(Player).velocity.y > 0
    /\ Before(Player).after_jump_gravity_immunity_timer.elapsed = 0
    /\ entities[Player].velocity.y = -FixedOne
    /\ entities[Player].is_touching_ceiling

\* C16: a wall check whose probe hit sets its flag and leaves velocity.x
\* pointing away from the wall (>= 0 for the left wall, <= 0 for the right
\* wall); one whose probe did not hit clears its flag and leaves velocity.x
C16_WallChecks ==
    /\ Ran("check_wall_left_state") =>
          \A e \in DOMAIN entities :
              /\ locals.of[e].hit # NoHit =>
                    entities[e].is_touching_wall_left /\ entities[e].velocity.x >= 0
              /\ locals.of[e].cast /\ locals.of[e].hit = NoHit =>
                    ~entities[e].is_touching_wall_left /\ entities[e].velocity.x = Before(e).velocity.x
    /\ Ran("check_wall_right_state") =>
          \A e \in DOMAIN entities :
              /\ locals.of[e].hit # NoHit =>
                    entities[e].is_touching_wall_right /\ entities[e].velocity.x <= 0
              /\ locals.of[e].cast /\ locals.of[e].hit = NoHit =>
                    ~entities[e].is_touching_wall_right /\ entities[e].velocity.x = Before(e).velocity.x

\* C17: when the movement step starts with the left-wall flag set and
\* velocity.x < 0, it sets velocity.x to 0 and does not move the entity in -x;
\* the same with the right-wall flag, velocity.x > 0 and +x
C17_WallBlock ==
    Ran("apply_velocity") =>
        \A e \in DOMAIN entities :
            /\ Before(e).is_touching_wall_left /\ Before(e).velocity.x < 0 =>
                  /\ entities[e].velocity.x = 0
                  /\ entities[e].transform.x >= Before(e).transform.x
            /\ Before(e).is_touching_wall_right /\ Before(e).velocity.x > 0 =>
                  /\ entities[e].velocity.x = 0
                  /\ entities[e].transform.x <= Before(e).transform.x

\* an entity walking left at more than 1 unit/s against the left wall is moved
\* vertically only
C17_Witness ==
    /\ Ran("apply_velocity")
    /\ Before(Player).is_touching_wall_left
    /\ Before(Player).velocity.x <= -FixedOne
    /\ locals.of[Player].cast
    /\ entities[Player].velocity.x = 0
    /\ entities[Player].transform.x = Before(Player).transform.x
    /\ entities[Player].transform.y # Before(Player).transform.y

\* C18: the movement step moves the entity along its velocity by
\* max(d - skin, 0) when the cast reports a hit at distance d, never by a
\* negative distance and never by more than d, and by the target distance
\* when the cast reports no hit
C18_SkinClampedMove ==
    Ran("apply_velocity") =>
        \A e \in DOMAIN entities :
            locals.of[e].cast =>
                /\ entities[e].transform.x = Before(e).transform.x
                      + NormalizeTimes(entities[e].velocity, locals.of[e].actual_distance).x
                /\ entities[e].transform.y = Before(e).transform.y
                      + NormalizeTimes(entities[e].velocity, locals.of[e].actual_distance).y
                /\ locals.of[e].hit # NoHit =>
                      /\ locals.of[e].actual_distance = Max(locals.of[e].hit - Skin, 0)
                      /\ locals.of[e].actual_distance >= 0
                      /\ locals.of[e].actual_distance <= locals.of[e].hit
                /\ locals.of[e].hit = NoHit =>
                      locals.of[e].actual_distance = locals.of[e].target_distance

\* C19: the movement step leaves the position as it is when the target
\* distance |velocity| dt is 0 or the length of the velocity is not finite
C19_NoMoveWithoutDistance ==
    Ran("apply_velocity") =>
        \A e \in DOMAIN entities :
            \/ length(entities[e].velocity) = 0
            \/ length(entities[e].velocity) = Infinity
            \/ TimesDeltaSecs(length(entities[e].velocity)) = 0
            => entities[e].transform = Before(e).transform

\* the jump impulse was added to velocity.y by the control step that ran last
Impulse(e) == entities[e].velocity.y = Before(e).velocity.y + jump_force

\* C20: a jump request is granted exactly when the entity is grounded, or its
\* stopwatch is below the coyote time and the jump cooldown has finished
C20_JumpPermission ==
    Ran("apply_controls") =>
        \A e \in DOMAIN entities :
            /\ "Jump" \in action_state =>
                  (Impulse(e) <=>
                      \/ Before(e).is_grounded
                      \/ /\ Before(e).grounded_stopwatch < coyote_time
                         /\ Before(e).jump_cooldown_timer.elapsed + time_delta
                               >= Before(e).jump_cooldown_timer.duration)
            /\ "Jump" \notin action_state => ~Impulse(e)

\* a jump in the coyote time: the entity is in the air, the cooldown has finished
C20_Witness ==
    /\ Ran("apply_controls")
    /\ "Jump" \in action_state
    /\ ~Before(Player).is_grounded
    /\ Before(Player).grounded_stopwatch < coyote_time
    /\ Impulse(Player)
    /\ entities[Player].jump_cooldown_timer.elapsed = 0

\* a request in the air that is refused: the stopwatch has reached the coyote time
C20_WitnessRefused ==
    /\ Ran("apply_controls")
    /\ "Jump" \in action_state
    /\ ~Before(Player).is_grounded
    /\ Before(Player).grounded_stopwatch >= coyote_time
    /\ Before(Player).jump_cooldown_timer.elapsed = Before(Player).jump_cooldown_timer.duration
    /\ ~Impulse(Player)

-----------------------------------------------------------------------------
(* Properties of the jump over the frames of a game *)

\* the jump cooldown of e had finished once the control step that ran last had ticked it
CooldownFinished(e) ==
    Before(e).jump_cooldown_timer.elapsed + time_delta >= Before(e).jump_cooldown_timer.duration

\* the control step that ran last left velocity.y of e as it was
NoImpulse(e) == entities[e].velocity.y = Before(e).velocity.y

\* e stood on the ground and the ground checks since have found none
LeftGround(e) == airborne[e].since_hit /\ airborne[e].ticks >= 1

\* C21 as stated: an entity in the air whose stopwatch has not exceeded the
\* coyote time gets the impulse on a jump request; one whose stopwatch has
\* exceeded it gets none
C21_CoyoteWindowByStopwatchAlone ==
    Ran("apply_controls") /\ "Jump" \in action_state =>
        \A e \in DOMAIN entities :
            LeftGround(e) /\ ~Before(e).is_grounded =>
                /\ Before(e).grounded_stopwatch <= coyote_time => Impulse(e)
                /\ Before(e).grounded_stopwatch > coyote_time => NoImpulse(e)

\* the control step that ran last served a jump request of an entity in the air
\* by the stopwatch and the cooldown
CoyoteJumpServed ==
    Ran("apply_controls") /\ "Jump" \in action_state =>
        \A e \in DOMAIN entities :
            LeftGround(e) /\ ~Before(e).is_grounded =>
                /\ Before(e).grounded_stopwatch < coyote_time /\ CooldownFinished(e) => Impulse(e)
                /\ Before(e).grounded_stopwatch < coyote_time /\ ~CooldownFinished(e) => NoImpulse(e)
                /\ Before(e).grounded_stopwatch >= coyote_time => NoImpulse(e)

\* a stopwatch that has reached the coyote time stays there while the entity is not grounded
CoyoteWindowStaysClosed ==
    \A e \in DOMAIN entities :
        entities[e].grounded_stopwatch >= coyote_time /\ ~entities'[e].is_grounded =>
            entities'[e].grounded_stopwatch >= coyote_time

\* C21: an entity in the air that requests a jump while its stopwatch is below
\* the coyote time and its jump cooldown has finished gets the impulse; once
\* the stopwatch has reached the coyote time every request fails and leaves
\* velocity.y as it was, for as long as the entity is not grounded
C21_CoyoteWindow == [](CoyoteJumpServed) /\ [][CoyoteWindowStaysClosed]_vars

\* a jump in the air 200 ms after the entity left the ground it stood on
C21_Witness ==
    /\ Ran("apply_controls")
    /\ "Jump" \in action_state
    /\ LeftGround(Player)
    /\ ~Before(Player).is_grounded
    /\ Before(Player).grounded_stopwatch = from_millis(200)
    /\ Impulse(Player)
    /\ entities[Player].jump_cooldown_timer.elapsed = 0

\* a request refused 600 ms after the entity left the ground, the cooldown over
C21_WitnessRefused ==
    /\ Ran("apply_controls")
    /\ "Jump" \in action_state
    /\ LeftGround(Player)
    /\ ~Before(Player).is_grounded
    /\ Before(Player).grounded_stopwatch > coyote_time
    /\ CooldownFinished(Player)
    /\ NoImpulse(Player)

\* the control step that ran last had a jump request of e that the rule of
\* lines 336-339 permits
PermittedJump(e) ==
    /\ "Jump" \in action_state
    /\ \/ Before(e).is_grounded
       \/ Before(e).grounded_stopwatch < coyote_time /\ CooldownFinished(e)

\* C22: on a permitted jump the control step adds the jump force to
\* velocity.y and leaves the immunity timer and the jump cooldown timer at 0
\* elapsed; otherwise it leaves velocity.y and the immunity timer as they
\* were and the cooldown timer ticked by the delta of the frame, not reset
C22_JumpEffects ==
    Ran("apply_controls") =>
        \A e \in DOMAIN entities :
            /\ PermittedJump(e) =>
                  /\ entities[e].velocity.y = Before(e).velocity.y + jump_force
                  /\ entities[e].after_jump_gravity_immunity_timer.elapsed = 0
                  /\ entities[e].jump_cooldown_timer.elapsed = 0
            /\ ~PermittedJump(e) =>
                  /\ entities[e].velocity.y = Before(e).velocity.y
                  /\ entities[e].after_jump_gravity_immunity_timer
                        = Before(e).after_jump_gravity_immunity_timer
                  /\ entities[e].jump_cooldown_timer.elapsed
                        = IF CooldownFinished(e) THEN Before(e).jump_cooldown_timer.duration
                          ELSE Before(e).jump_cooldown_timer.elapsed + time_delta

\* a jump from the ground while both timers had run
C22_Witness ==
    /\ Ran("apply_controls")
    /\ PermittedJump(Player)
    /\ Before(Player).is_grounded
    /\ Before(Player).after_jump_gravity_immunity_timer.elapsed > 0
    /\ Before(Player).jump_cooldown_timer.elapsed > 0
    /\ entities[Player].velocity.y = Before(Player).velocity.y + jump_force
    /\ entities[Player].after_jump_gravity_immunity_timer.elapsed = 0
    /\ entities[Player].jump_cooldown_timer.elapsed = 0

Min(a, b) == IF a <= b THEN a ELSE b

\* the gravity step that ran last left the velocity of e as it was
GravityNotApplied(e) == entities[e].velocity = Before(e).velocity

\* the gravity step that ran last accelerated e downwards by gravity * dt
GravityApplied(e) ==
    entities[e].velocity.y = Before(e).velocity.y - TimesDeltaSecs(gravity)

\* C23: the toggle step advances the immunity timer by the delta of the frame
\* (up to its duration); a gravity step that follows the toggle step of its
\* frame does not change the velocity while the timer has not finished, and
\* applies gravity to a falling entity once the timer has finished
C23_GravityImmunity ==
    /\ Ran("toggle_gravity") =>
          \A e \in DOMAIN entities :
              entities[e].after_jump_gravity_immunity_timer.elapsed
                  = Min(Before(e).after_jump_gravity_immunity_timer.elapsed + time_delta,
                        Before(e).after_jump_gravity_immunity_timer.duration)
    /\ Ran("apply_gravity") /\ "toggle_gravity" \in update_ran =>
          \A e \in DOMAIN entities :
              /\ ~finished(Before(e).after_jump_gravity_immunity_timer) => GravityNotApplied(e)
              /\ /\ finished(Before(e).after_jump_gravity_immunity_timer)
                 /\ ~Before(e).is_grounded
                 /\ Before(e).velocity.y > -max_fall_speed
                 => GravityApplied(e)

\* the systems of the frame have all run
FrameEnded == update_ran = JumpSystems

\* C28: when an entity in the air had a jump request refused in one frame and
\* lands in the next with Jump no longer pressed, the impulse is added in the
\* frame of the landing
C28_JumpBuffering ==
    FrameEnded =>
        \A e \in DOMAIN entities :
            airborne[e].buffered /\ airborne[e].landed /\ "Jump" \notin action_state
                => airborne[e].impulse

-----------------------------------------------------------------------------
(* Properties of the systems over several bodies *)

\* the passes the loop under way (or the last loop) has made
Passed == IF locals.system = "none" THEN {} ELSE DOMAIN locals.of

\* the loop of a system has ended
Ended(system) == locals.system = system /\ LoopDone

\* the flag the contact check `system` writes
ContactFlag(system, c) ==
    CASE system = "check_grounded_state" -> c.is_grounded
      [] system = "check_wall_left_state" -> c.is_touching_wall_left
      [] system = "check_wall_right_state" -> c.is_touching_wall_right
      [] system = "check_ceiling_state" -> c.is_touching_ceiling

\* C24: a pass of a collision system or of the movement step for an entity
\* none of whose children carries a collider casts nothing and leaves the
\* entity's flags, timers, velocity and position as they were when the loop
\* began; the loop goes on to the other entities: when it has ended, every
\* entity with a collider has its flag set by its own probe, or its velocity
\* overridden and its position moved by the movement step
C24_BodyWithoutColliderSkipped ==
    locals.system \in CollisionSystems =>
        /\ \A e \in Passed :
              ~locals.start[e].collider_child =>
                  /\ ~locals.of[e].cast
                  /\ entities[e] = locals.start[e]
        /\ LoopDone =>
              /\ Passed = DOMAIN entities
              /\ \A e \in DOMAIN entities :
                    locals.start[e].collider_child =>
                        IF locals.system = "apply_velocity"
                        THEN /\ entities[e].velocity = overridden_velocity(locals.start[e])
                             /\ locals.of[e].cast <=> moves(locals.start[e])
                             /\ locals.of[e].cast /\ locals.of[e].actual_distance > 0
                                   => entities[e].transform # locals.start[e].transform
                        ELSE /\ locals.of[e].cast
                             /\ ContactFlag(locals.system, entities[e]) <=> locals.of[e].hit # NoHit

\* the movement step has skipped the falling player, who has no collider,
\* and has moved the other body
C24_Witness ==
    /\ Ended("apply_velocity")
    /\ ~entities[Player].collider_child
    /\ entities[Player] = locals.start[Player]
    /\ entities[Player].velocity.y < 0
    /\ entities[Other].collider_child
    /\ entities[Other].transform # locals.start[Other].transform

\* the ground check has skipped the player and has grounded the other body
C24_WitnessGroundCheck ==
    /\ Ended("check_grounded_state")
    /\ ~entities[Player].collider_child
    /\ entities[Player] = locals.start[Player]
    /\ ~locals.start[Other].is_grounded
    /\ entities[Other].is_grounded

\* what the loop body of `system` makes of the components c and the answer
\* of the spatial query to its cast
LoopBody(system, c, hit) ==
    CASE system = "check_grounded_state" -> check_grounded_state(c, hit)
      [] system = "check_wall_left_state" -> check_wall_left_state(c, hit)
      [] system = "check_wall_right_state" -> check_wall_right_state(c, hit)
      [] system = "check_ceiling_state" -> check_ceiling_state(c, hit)
      [] system = "apply_velocity" -> apply_velocity(c, hit)
      [] system = "toggle_gravity" -> toggle_gravity(c)

\* C29: while a system goes through the entities, in whatever order, an
\* entity it has not met yet is as it was when the loop began, and an entity
\* it has met is what the loop body makes of that entity's own components at
\* the beginning of the loop and of the answer to that entity's own cast: no
\* pass writes the flags, timers, velocity or position of another entity
C29_BodiesIndependent ==
    locals.system # "none" =>
        \A e \in DOMAIN entities :
            IF e \in Passed
            THEN entities[e] = LoopBody(locals.system, locals.start[e], locals.of[e].hit)
            ELSE entities[e] = locals.start[e]

\* the ground check has gone through both bodies: the player stands, the
\* other body is in the air and its stopwatch has run for the frame
C29_Witness ==
    /\ Ended("check_grounded_state")
    /\ \A e \in Bodies : locals.start[e].collider_child
    /\ locals.of[Player].hit # NoHit
    /\ locals.of[Other].hit = NoHit
    /\ entities[Player].is_grounded
    /\ entities[Player].grounded_stopwatch = 0
    /\ ~entities[Other].is_grounded
    /\ entities[Other].grounded_stopwatch = time_delta
    /\ entities[Other].velocity = locals.start[Other].velocity

-----------------------------------------------------------------------------
(* Properties of find_best_rectangle *)

\* the solid rectangles contained in the set T
SolidRects(T) == UNION {SolidRectsAt(T, t) : t \in T}

\* the rectangle the iteration that has just ended pushed
Emitted == rectangles'[Len(rectangles')]

\* C30: the rectangle an iteration of merge_tiles emits is a solid rectangle
\* of the working set as it is when the rectangle is chosen, and no solid
\* rectangle of that set has a larger area
C30_EmittedRectangleIsLargest ==
    [][Len(rectangles') = Len(rectangles) + 1 =>
          /\ Emitted \in SolidRects(heap[WorkingSet])
          /\ \A rect \in SolidRects(heap[WorkingSet]) : area(rect) <= area(Emitted)]_vars

\* a column of three tiles with a tile beside its top: the column is emitted
\* first, not the row of two at the same corner
C30_Witness ==
    /\ pc = "returned"
    /\ heap.tiles = {TileCoords(0, 0), TileCoords(1, 0), TileCoords(0, 1), TileCoords(0, 2)}
    /\ Len(rectangles) = 2
    /\ rectangles[1] = Rectangle(0, 0, 1, 3)
    /\ rectangles[2] = Rectangle(1, 0, 1, 1)

-----------------------------------------------------------------------------
(* Properties of the movement step *)

\* apply_velocity has moved the entity e along its velocity
Moved(e) == Ran("apply_velocity") /\ locals.of[e].cast

\* lines 320-330 zero the horizontal velocity the entity came with
WallBlocks(c) ==
    \/ c.is_touching_wall_left /\ c.velocity.x < 0
    \/ c.is_touching_wall_right /\ c.velocity.x > 0

\* C31: in the movement step of an entity with a collider, a velocity.x
\* with |velocity.x| < 1 is set to exactly 0 before the cast, and a
\* velocity.x with |velocity.x| >= 1 is kept by the dead zone (only a wall
\* the entity touches on that side zeroes it afterwards); the step never
\* moves an entity horizontally whose velocity.x was inside the dead zone,
\* so every horizontal displacement comes with a speed of at least 1.
C31_DeadZone ==
    Ran("apply_velocity") =>
        \A e \in DOMAIN entities :
            LET before == Before(e)
                c == entities[e]
            IN  /\ before.collider_child /\ Abs(before.velocity.x) < FixedOne =>
                       /\ c.velocity.x = 0
                       /\ c.transform.x = before.transform.x
                /\ before.collider_child /\ Abs(before.velocity.x) >= FixedOne =>
                       c.velocity.x = IF WallBlocks(before) THEN 0 ELSE before.velocity.x
                /\ c.transform.x # before.transform.x =>
                       /\ Abs(c.velocity.x) >= FixedOne
                       /\ c.velocity.x = before.velocity.x

\* a velocity.x of 0.5 was set to 0 and the entity was moved straight down
C31_Witness ==
    /\ Moved(Player)
    /\ Before(Player).velocity = Vec2(FixedOne \div 2, -FixedOne)
    /\ entities[Player].velocity = Vec2(0, -FixedOne)
    /\ entities[Player].transform.x = Before(Player).transform.x
    /\ entities[Player].transform.y < Before(Player).transform.y

\* a velocity.x of exactly 1.0 was kept and moved the entity to the right
C31_WitnessEdge ==
    /\ Moved(Player)
    /\ Before(Player).velocity = Vec2(FixedOne, 0)
    /\ entities[Player].velocity = Vec2(FixedOne, 0)
    /\ entities[Player].transform.x > Before(Player).transform.x

\* C32: in the movement step of an entity with a collider whose ceiling
\* flag is set, a positive velocity.y is set to exactly -1 before the cast,
\* and the step does not move the entity upwards.
C32_CeilingBlock ==
    Ran("apply_velocity") =>
        \A e \in DOMAIN entities :
            LET before == Before(e)
                c == entities[e]
            IN  before.collider_child /\ before.is_touching_ceiling =>
                    /\ before.velocity.y > 0 => c.velocity.y = -FixedOne
                    /\ c.transform.y <= before.transform.y

\* C33: the cast and the translation of the movement step change the
\* transform only: the velocity the entity has after it was moved is the
\* velocity the direction and the target distance of the cast were taken
\* from, the displacement is along it, and no other component has changed.
C33_VelocityConsumed ==
    \A e \in DOMAIN entities :
        Moved(e) =>
            LET before == Before(e)
                c == entities[e]
                step == NormalizeTimes(c.velocity, locals.of[e].actual_distance)
            IN  /\ c.velocity = overridden_velocity(before)
                /\ locals.of[e].target_distance = TimesDeltaSecs(length(c.velocity))
                /\ c.transform = Vec2(before.transform.x + step.x, before.transform.y + step.y)
                /\ c = [before EXCEPT !.velocity = c.velocity, !.transform = c.transform]

\* the cast hit something, the entity was moved up to it and kept its velocity
C33_Witness ==
    /\ Moved(Player)
    /\ locals.of[Player].hit = 3 * Skin
    /\ Before(Player).velocity = Vec2(2 * FixedOne, -2 * FixedOne)
    /\ entities[Player].velocity = Vec2(2 * FixedOne, -2 * FixedOne)
    /\ entities[Player].transform # Before(Player).transform

-----------------------------------------------------------------------------
(* Properties of Rectangle *)

\* the tile lies within [x, x + width) x [y, y + height)
Within(rect, pos) ==
    /\ rect.x <= pos.x /\ pos.x < rect.x + rect.width
    /\ rect.y <= pos.y /\ pos.y < rect.y + rect.height

\* C34: for every rectangle with a width and a height of at least 1,
\* contains_tile(t) returns whether t lies within [x, x + w) x [y, y + h);
\* get_covered_tiles returns exactly w * h = area() distinct tiles, each
\* of which contains_tile accepts; and every rectangle merge_tiles emits has
\* a width and a height of at least 1.
C34_RectangleMethods ==
    /\ pc = "rect_returned" /\ rect_call.method = "contains_tile" =>
           /\ ~rect_call.result.panic
           /\ rect_call.result.value = Within(rect_call.self, rect_call.pos)
    /\ pc = "rect_returned" /\ rect_call.method = "get_covered_tiles" =>
           /\ ~rect_call.result.panic
           /\ Cardinality(rect_call.result.tiles) = rect_call.self.width * rect_call.self.height
           /\ Cardinality(rect_call.result.tiles) = area(rect_call.self)
           /\ \A t \in rect_call.result.tiles :
                  contains_tile(rect_call.self, t) = [panic |-> FALSE, value |-> TRUE]
    /\ \A i \in 1..Len(rectangles) : rectangles[i].width >= 1 /\ rectangles[i].height >= 1

\* C36: the areas of the rectangles merge_tiles has emitted do not increase
\* in emission order: no rectangle is larger than one emitted before it.
C36_AreasNonIncreasing ==
    \A i, j \in 1..Len(rectangles) : i < j => area(rectangles[i]) >= area(rectangles[j])

\* the level of the test was returned as four rectangles, the largest first
\* and a smaller one last
C36_Witness ==
    /\ pc = "returned"
    /\ heap.tiles = ComplexLevel
    /\ Len(rectangles) = 4
    /\ area(rectangles[1]) > area(rectangles[4])

-----------------------------------------------------------------------------
(* Properties of repeated jumps and of the fall *)

\* C37: once the jump impulse has been added to an entity's velocity and a
\* ground check has cleared its grounded flag, no impulse is added again
\* before a ground check has set the flag, whatever the order of the
\* systems in a frame and whatever the input.
C37_NoMidAirSecondJump ==
    \A e \in DOMAIN entities : ~airborne[e].midair

\* C38: while Jump stays pressed, two impulses to the same entity are at
\* least the jump cooldown apart, whatever the order of the systems in a
\* frame.
C38_ImpulsesOneCooldownApart ==
    \A e \in DOMAIN entities : ~airborne[e].early

\* C39: apply_gravity changes velocity.y only if the gravity is enabled,
\* the entity is not grounded and velocity.y > -max_fall_speed; and a
\* velocity.y that was at least -max_fall_speed before the step is at least
\* -max_fall_speed after it.
C39_TerminalFallSpeed ==
    Ran("apply_gravity") =>
        \A e \in DOMAIN entities :
            /\ entities[e].velocity.y # Before(e).velocity.y =>
                   /\ Before(e).gravity_enabled
                   /\ ~Before(e).is_grounded
                   /\ Before(e).velocity.y > -max_fall_speed
            /\ Before(e).velocity.y >= -max_fall_speed =>
                   entities[e].velocity.y >= -max_fall_speed

-----------------------------------------------------------------------------
(* Properties of the axis-separated movement *)

\* the system of the variant has run for the entity e
Resolved(e) ==
    /\ Ran("kinematic_movement_with_collision_detection")
    /\ e \in DOMAIN locals.of

\* the displacement of a pass along one axis: all of the movement, or up to
\* the hit less the margin
PassStep(runs, movement, hit) ==
    IF ~runs THEN 0
    ELSE IF hit = NoContact THEN movement
    ELSE Sign(movement) * Max0(hit.distance - SafeMargin)

\* C35: in a tick in which the body moves, the X component of the desired
\* translation is resolved before the Y component: the X pass casts from
\* where the body was, moves it, sets the wall flag of its hit and stops
\* velocity.x; the Y pass then runs whenever the Y component is longer than
\* the threshold, whether or not the X pass has hit, starts where the X pass
\* has left the body, moves it vertically and grounds it on a hit of the
\* ground.
C35_XResolvedBeforeY ==
    \A e \in DOMAIN entities :
        Resolved(e) /\ ~locals.of[e].static_only =>
            LET l == locals.of[e]
                before == l.before
                c == entities[e]
                desired == desired_translation(before, time_delta)
            IN  /\ l.x_pass = (Abs(desired.x) > MovementThreshold)
                /\ l.y_pass = (Abs(desired.y) > MovementThreshold)
                /\ l.between = Vec2(before.transform.x + PassStep(l.x_pass, desired.x, l.x_hit),
                                    before.transform.y)
                /\ l.x_pass /\ l.x_hit # NoContact =>
                       /\ c.velocity.x = 0
                       /\ 2 * l.x_hit.normal.x > FixedOne => c.collision_state.against_left_wall
                       /\ 2 * l.x_hit.normal.x < -FixedOne => c.collision_state.against_right_wall
                /\ c.transform = Vec2(l.between.x,
                                      l.between.y + PassStep(l.y_pass, desired.y, l.y_hit))
                /\ l.y_pass /\ l.y_hit # NoContact /\ 2 * l.y_hit.normal.y > FixedOne =>
                       c.collision_state.grounded

\* a body walking right and falling was stopped by a wall at once, then fell
\* on and was grounded by the hit of its Y pass, no ray finding the ground
C35_Witness ==
    /\ Resolved(Player)
    /\ locals.of[Player].before.velocity = Vec2(2 * FixedOne, -2 * FixedOne)
    /\ locals.of[Player].x_hit = Contact(0, Vec2(-FixedOne, 0))
    /\ locals.of[Player].y_hit = Contact(3 * SafeMargin, Vec2(0, FixedOne))
    /\ locals.of[Player].rays.ground = NoContact
    /\ entities[Player].transform.x = locals.of[Player].before.transform.x
    /\ entities[Player].transform.y < locals.of[Player].before.transform.y
    /\ entities[Player].velocity.x = 0
    /\ entities[Player].collision_state.against_right_wall
    /\ entities[Player].collision_state.grounded

\* C40: after a tick of the variant's system a body whose grounded flag is
\* set has a time_since_grounded of 0, in a tick that moved the body and in
\* a tick in which only the static contact check ran.
C40_GroundedMeansZeroTime ==
    \A e \in DOMAIN entities :
        Resolved(e) =>
            (entities[e].collision_state.grounded =>
                 entities[e].collision_state.time_since_grounded = 0)

=============================================================================
